---- MODULE Spec2Model ----
(***************************************************************************)
(* Model of the resilient invocation gateway and of the tool-calling loop  *)
(* of BaseAgent (src/agents/base_agent.py) and of the Orchestrator         *)
(* (src/orchestrator.py).                                                  *)
(*                                                                         *)
(*   Spec       the pool and invocar_llm, handlers run one after another   *)
(*   SpecConc   the same with the calls of two threads interleaved         *)
(*   SpecTools  processar_com_tools of one handler                         *)
(*   SpecOrq    processar_mensagem of one Orchestrator, over handlers that *)
(*              may return any result record                               *)
(*   SpecConversa  conversations: processar_mensagem, resetar and the      *)
(*              constructor, over the four handlers as they are written    *)
(*                                                                         *)
(* Python indices are kept 0-based (modelo_atual_idx, _api_key_atual_idx); *)
(* a Python list l is a TLA+ sequence and l[i] is written At(l, i).        *)
(*                                                                         *)
(* What the model takes from the environment:                              *)
(*  - at least one GOOGLE_API_KEY* is set (else the first constructor      *)
(*    raises ValueError and no handler exists), and the credentials are    *)
(*    pairwise different strings;                                          *)
(*  - a constructor gets api_key=None or GOOGLE_API_KEY, as app.py passes; *)
(*  - no handler calls registrar_tools, so the client of a request is      *)
(*    self.llm (llm_with_tools stays None);                                *)
(*  - in Spec handlers run in one thread: a call of invocar_llm runs to    *)
(*    its return before another operation starts.                          *)
(* _memoria_compartilhada is kept as the number of its messages; None and  *)
(* the empty history are not told apart.                                   *)
(***************************************************************************)
EXTENDS Integers, Sequences, FiniteSets, TLC

\* ------------------------------------------------------------------------
\* Bounds of the model
\* ------------------------------------------------------------------------
\* largest number of GOOGLE_API_KEY* variables the environment defines
MaxKeys == 2
\* number of handler instances (BaseAgent objects) that exist at a time
MaxAgents == 2
\* largest number of messages of the shared conversation memory
MaxMemoria == 1

\* number of GOOGLE_API_KEY* variables when two conversations run at a time
KeysConc == 3
\* largest number of messages of the memory when processar_com_tools runs
MaxHistorico == 21
\* largest number of entries of the turn log of an Orchestrator
MaxTurnos == 2
\* largest number of entries of the turn log of a conversation
MaxTurnosConversa == 12
\* largest number of messages of the shared memory of a conversation
MaxMensagens == 26

\* the failed authentication attempts a model run counts up to
MaxTentativas == 4

\* ------------------------------------------------------------------------
\* Constants of the program
\* ------------------------------------------------------------------------
\* max_iteracoes = 5 of processar_com_tools
max_iteracoes == 5
\* the window of historico[-20:] in processar_com_tools
JanelaHistorico == 20

Agents == 1..MaxAgents

\* ------------------------------------------------------------------------
\* The environment: credentials and preferred model
\* ------------------------------------------------------------------------
\* the credential strings GOOGLE_API_KEY, GOOGLE_API_KEY_2, ... (opaque)
KeyNames == <<"keyX", "keyY", "keyZ", "keyW", "keyV">>

\* value of an attribute of a handler that was not constructed yet
Nenhum == "nenhum"

\* the class attribute MODELOS_FALLBACK as written in the source
ModelosPadrao == <<"gemini-2.5-flash", "gemini-2.5-flash-lite">>

\* values of GEMINI_MODEL: unset (the default), a listed model at a
\* non-head position, and a model that is not listed
ModelosEnv == {"gemini-2.5-flash", "gemini-2.5-flash-lite", "gemini-custom"}

\* l[i] of a Python list
At(l, i) == l[i + 1]

\* l.index(x) of a Python list that contains x
IndexOf(l, x) == (CHOOSE i \in 1..Len(l) : l[i] = x /\ \A j \in 1..(i - 1) : l[j] # x) - 1

\* x in l
InList(l, x) == \E i \in 1..Len(l) : l[i] = x

VARIABLES
    env_keys,                    \* os.environ: number of GOOGLE_API_KEY* set
    env_model,                   \* os.environ: GEMINI_MODEL (or the default)
    _api_keys_disponiveis,       \* BaseAgent._api_keys_disponiveis
    _api_key_atual_idx,          \* BaseAgent._api_key_atual_idx
    _modelos_esgotados_por_key,  \* BaseAgent._modelos_esgotados_por_key
    MODELOS_FALLBACK,            \* BaseAgent.MODELOS_FALLBACK
    _memoria_compartilhada,      \* len(BaseAgent._memoria_compartilhada.messages)
    construido,                  \* which handler instances exist
    api_key,                     \* self.api_key
    modelo_atual,                \* self.modelo_atual
    modelo_atual_idx,            \* self.modelo_atual_idx
    llm,                         \* self.llm: the (model, key) the client holds
    pc,                          \* position of each handler in invocar_llm
    tentativas,                  \* local of invocar_llm
    max_tentativas,              \* local of invocar_llm
    resultado,                   \* how invocar_llm ended
    reqs,                        \* provider requests issued by the call
    esg_inicio,                  \* the exhausted pairs when the call began
    pulos,                       \* candidates the call skipped without a request
    tools_by_name,               \* self.tools_by_name: the registered tool names
    tpc,                         \* position of the handler in processar_com_tools
    usar_memoria,                \* argument of processar_com_tools
    mensagens,                   \* local of processar_com_tools: the transcript
    resposta,                    \* local: the last response of the gateway
    tool_calls_executados,       \* local of processar_com_tools
    iteracoes,                   \* local of processar_com_tools
    chamadas,                    \* gateway invocations of the run so far
    saida,                       \* how processar_com_tools ended
    agente_atual,                \* Orchestrator.agente_atual
    contexto,                    \* Orchestrator.contexto
    cliente_de,                  \* the cliente attribute of the handlers
    opc,                         \* position of processar_mensagem
    resultado_handler,           \* local resultado of processar_mensagem
    retorno,                     \* the record processar_mensagem returns
    historico_antes,             \* len(contexto['historico']) when the turn began
    invocados,                   \* the handlers whose processar the turn called
    etapa,                       \* agente_triagem.estado["etapa"]
    etapa_entrevista,            \* agente_entrevista.estado["etapa"]
    escritas,                    \* what the turn did to the shared memory, in order
    encerrou,                    \* a record with encerrar = True was returned
    estado,                      \* agente_triagem.estado: the keys besides etapa
    dados_coletados,             \* agente_entrevista.estado["dados_coletados"]: the keys that are set
    turno                        \* what happened inside the handlers during the turn

convVars == <<etapa, etapa_entrevista, escritas, encerrou, estado,
              dados_coletados, turno>>

orqVars == <<agente_atual, contexto, cliente_de, opc, resultado_handler,
             retorno, historico_antes, invocados, convVars>>

toolVars == <<tools_by_name, tpc, usar_memoria, mensagens, resposta,
              tool_calls_executados, iteracoes, chamadas, saida>>

vars == <<env_keys, env_model, _api_keys_disponiveis, _api_key_atual_idx,
          _modelos_esgotados_por_key, MODELOS_FALLBACK, _memoria_compartilhada,
          construido, api_key, modelo_atual, modelo_atual_idx, llm,
          pc, tentativas, max_tentativas, resultado, reqs, esg_inicio,
          pulos, toolVars, orqVars>>

classVars == <<_api_keys_disponiveis, _api_key_atual_idx,
               _modelos_esgotados_por_key, MODELOS_FALLBACK>>
selfVars == <<construido, api_key, modelo_atual, modelo_atual_idx, llm>>
callVars == <<pc, tentativas, max_tentativas, resultado, reqs, esg_inicio,
              pulos>>
envVars == <<env_keys, env_model>>

\* ------------------------------------------------------------------------
\* Provider outcomes
\* ------------------------------------------------------------------------
\* str(error) of the exceptions the provider client raises, as word lists:
\* the provider's reports of quota/capacity exhaustion, and other failures
ErrosDeQuota == { <<"429", "Too Many Requests">>,
                  <<"RESOURCE_EXHAUSTED">>,
                  <<"Quota", "exceeded">>,
                  <<"Rate Limit", "reached">> }

OutrosErros == { <<"Deadline", "timeout">>,
                 <<"500", "Internal">> }

Erros == ErrosDeQuota \cup OutrosErros

Sucesso == <<"ok">>

\* str.lower() on the words that occur in Erros
Lower(w) == CASE w = "RESOURCE_EXHAUSTED" -> "resource_exhausted"
              [] w = "Quota" -> "quota"
              [] w = "Rate Limit" -> "rate limit"
              [] w = "Too Many Requests" -> "too many requests"
              [] w = "Deadline" -> "deadline"
              [] w = "Internal" -> "internal"
              [] OTHER -> w

\* str(error).lower()
LowerStr(e) == [i \in 1..Len(e) |-> Lower(e[i])]

\* m in error_str
Contem(error_str, m) == \E i \in 1..Len(error_str) : error_str[i] = m

_is_quota_exceeded_error(error) ==
    LET error_str == LowerStr(error)
    IN  Contem(error_str, "429") \/ Contem(error_str, "resource_exhausted")
            \/ Contem(error_str, "quota") \/ Contem(error_str, "rate limit")

\* ------------------------------------------------------------------------
\* The shared pool (class attributes of BaseAgent) and one handler's view
\* ------------------------------------------------------------------------
\* the class attributes, as one value
Classe == [keys |-> _api_keys_disponiveis, idx |-> _api_key_atual_idx,
           esg |-> _modelos_esgotados_por_key, mf |-> MODELOS_FALLBACK]

\* the attributes of handler a, as one value
Self(a) == [api_key |-> api_key[a], modelo_atual |-> modelo_atual[a],
            modelo_atual_idx |-> modelo_atual_idx[a], llm |-> llm[a]]

\* if key not in _modelos_esgotados_por_key: _modelos_esgotados_por_key[key] = set()
ComEntrada(esg, key) ==
    IF key \in DOMAIN esg THEN esg
    ELSE [k \in (DOMAIN esg) \cup {key} |-> IF k = key THEN {} ELSE esg[k]]

\* a self.modelos_esgotados that is a set of its own, never written
ModelosEsgotadosProprio(s, c) == {}

\* self.modelos_esgotados: the set object stored under self.api_key
ModelosEsgotados(s, c) == c.esg[s.api_key]

\* the ExhaustionSet as a set of (slot, candidate) pairs
Pares(esg) == UNION { { <<k, m>> : m \in esg[k] } : k \in DOMAIN esg }

\* every (slot, candidate) pair of the pool
TodosPares(c) == { <<c.keys[i], c.mf[j]>> : i \in 1..Len(c.keys), j \in 1..Len(c.mf) }

_criar_llm(model, key) == [model |-> model, key |-> key]

_carregar_api_keys(c) ==
    IF Len(c.keys) > 0 THEN c
    ELSE [c EXCEPT !.keys = SubSeq(KeyNames, 1, env_keys)]

_obter_api_key_atual(c) == At(c.keys, c.idx)

\* a _trocar_api_key that starts over at the first key after the last one
_trocar_api_key_circular(c) ==
    LET idx == (c.idx + 1) % Len(c.keys)
    IN  [ok |-> TRUE,
         c |-> [c EXCEPT !.idx = idx, !.esg = ComEntrada(c.esg, At(c.keys, idx))]]

_trocar_api_key(c) ==
    IF c.idx < Len(c.keys) - 1
    THEN [ok |-> TRUE,
          c |-> [c EXCEPT !.idx = c.idx + 1,
                          !.esg = ComEntrada(c.esg, At(c.keys, c.idx + 1))]]
    ELSE [ok |-> FALSE, c |-> c]

_encontrar_modelo_disponivel(esgotados, mf, modelo_preferido) ==
    IF modelo_preferido \notin esgotados THEN modelo_preferido
    ELSE LET livres == { i \in 1..Len(mf) : mf[i] \notin esgotados }
         IN  IF livres # {}
             THEN mf[CHOOSE i \in livres : \A j \in livres : i <= j]
             ELSE modelo_preferido

\* a _trocar_modelo that forgets to record the candidate that failed
MarcarNada(s, c) == c

\* a marking that takes a candidate out of the set when it is marked again
MarcarAlterna(s, c) ==
    [c EXCEPT !.esg[s.api_key] = IF s.modelo_atual \in @ THEN @ \ {s.modelo_atual}
                                 ELSE @ \cup {s.modelo_atual}]

\* self.modelos_esgotados.add(self.modelo_atual), line 180
MarcarEsgotado(s, c) == [c EXCEPT !.esg[s.api_key] = @ \cup {s.modelo_atual}]

\* a search that moves the same candidate to the next key before it tries
\* the next candidate of the current key
ProximoModeloKeyPrimeiro(s, c) ==
    LET t == _trocar_api_key(c)
        livres == { i \in (s.modelo_atual_idx + 1)..(Len(c.mf) - 1) :
                        At(c.mf, i) \notin c.esg[s.api_key] }
    IN  IF t.ok
        THEN LET key == _obter_api_key_atual(t.c)
             IN  [ok |-> TRUE, c |-> t.c,
                  s |-> [s EXCEPT !.api_key = key,
                                  !.llm = _criar_llm(s.modelo_atual, key)]]
        ELSE IF livres # {}
             THEN LET idx == CHOOSE i \in livres : \A j \in livres : i <= j
                  IN  [ok |-> TRUE, c |-> c,
                       s |-> [s EXCEPT !.modelo_atual_idx = idx,
                                       !.modelo_atual = At(c.mf, idx),
                                       !.llm = _criar_llm(At(c.mf, idx), s.api_key)]]
             ELSE [ok |-> FALSE, c |-> c, s |-> s]

\* the search of _trocar_modelo, lines 182-219: the next candidate of the
\* current key that is not exhausted, else the first candidate of the next key
ProximoModelo(s, c) ==
    LET livres == { i \in (s.modelo_atual_idx + 1)..(Len(c.mf) - 1) :
                        At(c.mf, i) \notin c.esg[s.api_key] }
    IN  IF livres # {}
        THEN LET idx == CHOOSE i \in livres : \A j \in livres : i <= j
             IN  [ok |-> TRUE, c |-> c,
                  s |-> [s EXCEPT !.modelo_atual_idx = idx,
                                  !.modelo_atual = At(c.mf, idx),
                                  !.llm = _criar_llm(At(c.mf, idx), s.api_key)]]
        ELSE LET t == _trocar_api_key(c)
             IN  IF t.ok
                 THEN LET key == _obter_api_key_atual(t.c)
                      IN  [ok |-> TRUE,
                           c |-> [t.c EXCEPT !.esg = ComEntrada(t.c.esg, key)],
                           s |-> [api_key |-> key,
                                  modelo_atual_idx |-> 0,
                                  modelo_atual |-> At(c.mf, 0),
                                  llm |-> _criar_llm(At(c.mf, 0), key)]]
                 ELSE [ok |-> FALSE, c |-> c, s |-> s]

_trocar_modelo(s, c) == ProximoModelo(s, MarcarEsgotado(s, c))

\* a synchronisation that leaves the handler on the key it holds
_sincronizar_nada(s, c) == [c |-> c, s |-> s]

_sincronizar_com_estado_compartilhado(s, c) ==
    LET api_key_atual == _obter_api_key_atual(c)
    IN  IF s.api_key # api_key_atual
        THEN LET esg == ComEntrada(c.esg, api_key_atual)
                 m == _encontrar_modelo_disponivel(esg[api_key_atual], c.mf, At(c.mf, 0))
             IN  [c |-> [c EXCEPT !.esg = esg],
                  s |-> [api_key |-> api_key_atual,
                         modelo_atual_idx |-> 0,
                         modelo_atual |-> m,
                         llm |-> _criar_llm(m, api_key_atual)]]
        ELSE [c |-> c, s |-> s]

\* a constructor that puts the pool back on the first credential
BaseAgentInitPrimeiraKey(arg, c) ==
    LET c1 == _carregar_api_keys(c)
        key == IF arg # Nenhum THEN arg ELSE At(c1.keys, 0)
        c2 == [c1 EXCEPT !.esg = ComEntrada(c1.esg, key), !.idx = 0]
        model == env_model
        c3 == IF InList(c2.mf, model) THEN c2
              ELSE [c2 EXCEPT !.mf = <<model>> \o c2.mf]
        m == _encontrar_modelo_disponivel(c3.esg[key], c3.mf, model)
    IN  [c |-> c3,
         s |-> [api_key |-> key,
                modelo_atual |-> m,
                modelo_atual_idx |-> IF InList(c3.mf, m) THEN IndexOf(c3.mf, m) ELSE 0,
                llm |-> _criar_llm(m, key)]]

\* BaseAgent.__init__(api_key=arg): the class attributes and the new handler
BaseAgentInit(arg, c) ==
    LET c1 == _carregar_api_keys(c)
        key == IF arg # Nenhum THEN arg ELSE _obter_api_key_atual(c1)
        c2 == [c1 EXCEPT !.esg = ComEntrada(c1.esg, key)]
        model == env_model
        c3 == IF InList(c2.mf, model) THEN c2
              ELSE [c2 EXCEPT !.mf = <<model>> \o c2.mf]
        m == _encontrar_modelo_disponivel(c3.esg[key], c3.mf, model)
    IN  [c |-> c3,
         s |-> [api_key |-> key,
                modelo_atual |-> m,
                modelo_atual_idx |-> IF InList(c3.mf, m) THEN IndexOf(c3.mf, m) ELSE 0,
                llm |-> _criar_llm(m, key)]]

\* writes a class value / a handler value back to the variables
GravaClasse(c) ==
    /\ _api_keys_disponiveis' = c.keys
    /\ _api_key_atual_idx' = c.idx
    /\ _modelos_esgotados_por_key' = c.esg
    /\ MODELOS_FALLBACK' = c.mf

GravaSelf(a, s) ==
    /\ api_key' = [api_key EXCEPT ![a] = s.api_key]
    /\ modelo_atual' = [modelo_atual EXCEPT ![a] = s.modelo_atual]
    /\ modelo_atual_idx' = [modelo_atual_idx EXCEPT ![a] = s.modelo_atual_idx]
    /\ llm' = [llm EXCEPT ![a] = s.llm]

\* ------------------------------------------------------------------------
\* Initial state: the module is imported, no handler exists yet
\* ------------------------------------------------------------------------
\* no call of invocar_llm is running
SemChamada ==
    /\ pc = [a \in Agents |-> "idle"]
    /\ tentativas = [a \in Agents |-> 0]
    /\ max_tentativas = [a \in Agents |-> 0]
    /\ resultado = [a \in Agents |-> Nenhum]
    /\ reqs = [a \in Agents |-> <<>>]
    /\ esg_inicio = [a \in Agents |-> {}]
    /\ pulos = [a \in Agents |-> 0]

\* a response of the gateway: resposta.content and resposta.tool_calls
Resposta(content, tool_calls) == [content |-> content, tool_calls |-> tool_calls]

\* no call of processar_com_tools is running
ToolsParado ==
    /\ tpc = "idle"
    /\ usar_memoria = TRUE
    /\ mensagens = <<>>
    /\ resposta = Resposta(Nenhum, <<>>)
    /\ tool_calls_executados = <<>>
    /\ iteracoes = 0
    /\ chamadas = 0
    /\ saida = [tipo |-> Nenhum, texto |-> "", calls |-> <<>>]

\* the record processar_mensagem returns, and a handler's result
Retorno(r, e, n, erro) == [resposta |-> r, encerrar |-> e, agente_atual |-> n, erro |-> erro]

HandlerResult(r, p, c, e) == [resposta |-> r, proximo_agente |-> p, cliente |-> c, encerrar |-> e]

\* Orchestrator.__init__, lines 21-37: triage is current, the context is
\* empty, no turn is running
\* TriagemAgent.__init__, triagem_agent.py lines 15-21: the keys of estado
\* besides etapa (data_nascimento is only ever written)
EstadoInicial == [tentativas_falha |-> 0, cpf |-> Nenhum, cliente |-> Nenhum]

\* a turn in which no provider call failed, no score was written and no
\* number of remaining attempts was announced
SemEfeito == [falhas |-> {}, scores |-> <<>>, restantes |-> {}]

OrqConstruido ==
    /\ agente_atual = "triagem"
    /\ contexto = [cliente |-> Nenhum, cpf |-> Nenhum, autenticado |-> FALSE, historico |-> 0]
    /\ cliente_de = [credito |-> Nenhum, entrevista |-> Nenhum]
    /\ opc = "idle"
    /\ resultado_handler = HandlerResult(Nenhum, Nenhum, Nenhum, FALSE)
    /\ retorno = Retorno(Nenhum, FALSE, Nenhum, Nenhum)
    /\ historico_antes = 0
    /\ invocados = <<>>
    /\ etapa = "saudacao"
    /\ etapa_entrevista = "inicio"
    /\ escritas = <<>>
    /\ encerrou = FALSE
    /\ estado = EstadoInicial
    /\ dados_coletados = {}
    /\ turno = SemEfeito

\* the class attributes as the module defines them, and no handler yet
SemHandlers ==
    /\ _api_keys_disponiveis = <<>>
    /\ _api_key_atual_idx = 0
    /\ _modelos_esgotados_por_key = [k \in {} |-> {}]
    /\ MODELOS_FALLBACK = ModelosPadrao
    /\ construido = [a \in Agents |-> FALSE]
    /\ api_key = [a \in Agents |-> Nenhum]
    /\ modelo_atual = [a \in Agents |-> Nenhum]
    /\ modelo_atual_idx = [a \in Agents |-> 0]
    /\ llm = [a \in Agents |-> _criar_llm(Nenhum, Nenhum)]

Importado ==
    /\ env_model \in ModelosEnv
    /\ SemHandlers
    /\ _memoria_compartilhada = 0
    /\ SemChamada
    /\ tools_by_name = {}
    /\ ToolsParado
    /\ OrqConstruido

Init ==
    /\ env_keys \in 1..MaxKeys
    /\ Importado

\* handlers run in one thread: an operation starts when no call is running
Livre == \A b \in Agents : pc[b] = "idle"

\* the api_key argument of a constructor: omitted, or GOOGLE_API_KEY as
\* app.py passes it
ArgsApiKey == {Nenhum, KeyNames[1]}

\* ------------------------------------------------------------------------
\* Operations
\* ------------------------------------------------------------------------
\* BaseAgent.__init__, run by each of the four handler constructors of
\* Orchestrator.__init__; the instance takes slot a of the model
Construir(a, arg) ==
    /\ Livre
    /\ LET r == BaseAgentInit(arg, Classe)
       IN  /\ GravaClasse(r.c)
           /\ GravaSelf(a, r.s)
    /\ construido' = [construido EXCEPT ![a] = TRUE]
    /\ UNCHANGED <<envVars, toolVars, orqVars, callVars, _memoria_compartilhada>>

\* adicionar_mensagem: one message (of the user or of the handler) joins the
\* shared memory
AdicionarMensagem(a) ==
    /\ Livre
    /\ construido[a]
    /\ _memoria_compartilhada < MaxMemoria
    /\ _memoria_compartilhada' = _memoria_compartilhada + 1
    /\ UNCHANGED <<envVars, toolVars, orqVars, classVars, selfVars, callVars>>

\* a reset that also forgets which candidates are exhausted
ResetarEsquece ==
    /\ Livre
    /\ \E a \in Agents : construido[a]
    /\ _memoria_compartilhada' = 0
    /\ _modelos_esgotados_por_key' = [k \in DOMAIN _modelos_esgotados_por_key |-> {}]
    /\ UNCHANGED <<envVars, toolVars, orqVars, _api_keys_disponiveis, _api_key_atual_idx, MODELOS_FALLBACK,
                   selfVars, callVars>>

\* Orchestrator.resetar: clears the shared memory; the handler stages and
\* the context it resets are not part of the pool
Resetar ==
    /\ Livre
    /\ \E a \in Agents : construido[a]
    /\ _memoria_compartilhada' = 0
    /\ UNCHANGED <<envVars, toolVars, orqVars, classVars, selfVars, callVars>>

\* lines 325-328 of invocar_llm: the locals of the new frame
Entrada(a) ==
    /\ pc' = [pc EXCEPT ![a] = "loop"]
    /\ tentativas' = [tentativas EXCEPT ![a] = 0]
    /\ max_tentativas' = [max_tentativas EXCEPT ![a] =
            Len(MODELOS_FALLBACK) *
                (IF Len(_api_keys_disponiveis) > 0 THEN Len(_api_keys_disponiveis) ELSE 1)]
    /\ resultado' = [resultado EXCEPT ![a] = Nenhum]
    /\ reqs' = [reqs EXCEPT ![a] = <<>>]
    /\ esg_inicio' = [esg_inicio EXCEPT ![a] = Pares(_modelos_esgotados_por_key)]
    /\ pulos' = [pulos EXCEPT ![a] = 0]
    /\ UNCHANGED <<envVars, toolVars, orqVars, classVars, selfVars, _memoria_compartilhada>>

\* invocar_llm is entered by the one thread that runs the handlers
InvocarLLM(a) ==
    /\ Livre
    /\ construido[a]
    /\ Entrada(a)

\* the call ends: with a response or with one of its four exceptions
Termina(a, como) ==
    /\ pc' = [pc EXCEPT ![a] = "done"]
    /\ resultado' = [resultado EXCEPT ![a] = como]

\* one pass through the head of the while loop, lines 330-346 and 437:
\* synchronise, skip an exhausted candidate, or issue the provider request
Iterar(a) ==
    /\ pc[a] = "loop"
    /\ IF tentativas[a] < max_tentativas[a]
       THEN LET y == _sincronizar_com_estado_compartilhado(Self(a), Classe)
            IN  IF y.s.modelo_atual \in ModelosEsgotados(y.s, y.c)
                THEN LET t == _trocar_modelo(y.s, y.c)
                     IN  /\ GravaClasse(t.c)
                         /\ GravaSelf(a, t.s)
                         /\ IF t.ok
                            THEN UNCHANGED <<pc, resultado>>
                            ELSE Termina(a, "exc_esgotados")
                         /\ pulos' = [pulos EXCEPT ![a] = @ + 1]
                         /\ UNCHANGED reqs
                ELSE /\ GravaClasse(y.c)
                     /\ GravaSelf(a, y.s)
                     /\ pc' = [pc EXCEPT ![a] = "request"]
                     /\ reqs' = [reqs EXCEPT ![a] = Append(@,
                            [slot |-> y.c.idx, key |-> y.s.llm.key,
                             modelo |-> y.s.llm.model, res |-> "pendente"])]
                     /\ UNCHANGED <<resultado, pulos>>
       ELSE /\ Termina(a, "exc_max_tentativas")
            /\ UNCHANGED <<classVars, api_key, modelo_atual, modelo_atual_idx, llm,
                           reqs, pulos>>
    /\ UNCHANGED <<envVars, toolVars, orqVars, construido, tentativas, max_tentativas,
                   esg_inicio, _memoria_compartilhada>>

\* the reply to the last request, in reqs
ComResposta(rs, res) == [rs EXCEPT ![Len(rs)].res = res]

\* an except branch that falls back to the next candidate on every error
TratarErroSempreTroca(s, c, e) ==
    LET t == _trocar_modelo(s, c)
    IN  [fim |-> IF t.ok THEN "continue" ELSE "exc_todos_esgotados",
         s |-> t.s, c |-> t.c]

\* the except branch of invocar_llm, lines 385-435: what the call does with
\* the exception e of a failed request
TratarErro(s, c, e) ==
    IF _is_quota_exceeded_error(e)
    THEN LET t == _trocar_modelo(s, c)
         IN  [fim |-> IF t.ok THEN "continue" ELSE "exc_todos_esgotados",
              s |-> t.s, c |-> t.c]
    ELSE [fim |-> "exc_erro_llm", s |-> s, c |-> c]

\* the provider answers the request in flight, lines 346-435
ProviderResponde(a, r) ==
    /\ pc[a] = "request"
    /\ IF r = Sucesso
       THEN /\ Termina(a, "ok")
            /\ reqs' = [reqs EXCEPT ![a] = ComResposta(@, "ok")]
            /\ UNCHANGED <<classVars, api_key, modelo_atual, modelo_atual_idx, llm,
                           tentativas>>
       ELSE /\ tentativas' = [tentativas EXCEPT ![a] = @ + 1]
            /\ reqs' = [reqs EXCEPT ![a] =
                    ComResposta(@, IF r \in ErrosDeQuota THEN "quota" ELSE "erro")]
            /\ LET t == TratarErro(Self(a), Classe, r)
               IN  /\ GravaClasse(t.c)
                   /\ GravaSelf(a, t.s)
                   /\ IF t.fim = "continue"
                      THEN /\ pc' = [pc EXCEPT ![a] = "loop"]
                           /\ UNCHANGED resultado
                      ELSE Termina(a, t.fim)
    /\ UNCHANGED <<envVars, toolVars, orqVars, construido, max_tentativas, esg_inicio, pulos,
                   _memoria_compartilhada>>

\* the caller takes the response or the exception; the frame is gone
Retornar(a) ==
    /\ pc[a] = "done"
    /\ pc' = [pc EXCEPT ![a] = "idle"]
    /\ tentativas' = [tentativas EXCEPT ![a] = 0]
    /\ max_tentativas' = [max_tentativas EXCEPT ![a] = 0]
    /\ resultado' = [resultado EXCEPT ![a] = Nenhum]
    /\ reqs' = [reqs EXCEPT ![a] = <<>>]
    /\ esg_inicio' = [esg_inicio EXCEPT ![a] = {}]
    /\ pulos' = [pulos EXCEPT ![a] = 0]
    /\ UNCHANGED <<envVars, toolVars, orqVars, classVars, selfVars, _memoria_compartilhada>>

Next ==
    \/ \E a \in Agents, arg \in ArgsApiKey : Construir(a, arg)
    \/ \E a \in Agents : AdicionarMensagem(a)
    \/ Resetar
    \/ \E a \in Agents : InvocarLLM(a)
    \/ \E a \in Agents : Iterar(a)
    \/ \E a \in Agents, r \in {Sucesso} \cup Erros : ProviderResponde(a, r)
    \/ \E a \in Agents : Retornar(a)

Spec == Init /\ [][Next]_vars

\* ------------------------------------------------------------------------
\* Two conversations of one process: each Streamlit session runs its turns
\* in a thread of its own, and BaseAgent's class attributes are shared by
\* all of them. No lock guards the pool. A thread is taken to yield only
\* while it waits for the provider (between Iterar and ProviderResponde);
\* finer interleavings add behaviours to the ones of this specification.
\* GEMINI_MODEL is unset, so the preferred model is the head of the list.
\* ------------------------------------------------------------------------
InitConc ==
    /\ env_keys = KeysConc
    /\ Importado
    /\ env_model = ModelosPadrao[1]

\* invocar_llm is entered while the call of another thread may be running
InvocarLLMConcorrente(a) ==
    /\ pc[a] = "idle"
    /\ construido[a]
    /\ Entrada(a)

NextConc ==
    \/ \E a \in Agents, arg \in ArgsApiKey : Construir(a, arg)
    \/ \E a \in Agents : InvocarLLMConcorrente(a)
    \/ \E a \in Agents : Iterar(a)
    \/ \E a \in Agents, r \in {Sucesso} \cup Erros : ProviderResponde(a, r)
    \/ \E a \in Agents : Retornar(a)

SpecConc == InitConc /\ [][NextConc]_vars

TypeOK ==
    /\ _api_key_atual_idx \in 0..MaxKeys
    /\ \A a \in Agents : pc[a] \in {"idle", "loop", "request", "done"}

\* ------------------------------------------------------------------------
\* The tool-calling loop: processar_com_tools of one handler. The gateway is
\* seen from its caller: invocar_llm returns a response or raises one of its
\* exceptions (the values resultado takes in Spec). The provider gives every
\* tool call an id of its own.
\* ------------------------------------------------------------------------
\* the handler that runs the loop
PrimeiroAgente == CHOOSE a \in Agents : \A b \in Agents : a <= b

\* the tools the handler registered with registrar_tools
ToolsRegistradas == {"consultar_cliente"}

\* the id of a message that answers no tool call
SemId == <<0, 0>>

\* the messages of a transcript
Mensagem(tipo, pos, id, content, calls) ==
    [tipo |-> tipo, pos |-> pos, id |-> id, content |-> content, calls |-> calls]

SystemMessage == Mensagem("system", 0, SemId, "prompt_sistema", <<>>)

HumanMessage == Mensagem("human", 0, SemId, "mensagem_usuario", <<>>)

\* the i-th message of the conversation memory
MensagemDaMemoria(i) == Mensagem("memoria", i, SemId, "historico", <<>>)

\* mensagens.append(resposta): the response as a message of the transcript
AIMessage(r) == Mensagem("ai", 0, SemId, r.content, r.tool_calls)

ToolMessage(content, tool_call_id) == Mensagem("tool", 0, tool_call_id, content, <<>>)

\* self.memory.messages, or [] when there are none
obter_historico_memoria ==
    [i \in 1..(_memoria_compartilhada) |-> MensagemDaMemoria(i)]

\* a window that keeps the oldest messages, l[:n]
Primeiras(l, n) == SubSeq(l, 1, IF Len(l) > n THEN n ELSE Len(l))

\* the slice l[-n:] of a Python list, n > 0
Ultimas(l, n) == SubSeq(l, IF Len(l) > n THEN Len(l) - n + 1 ELSE 1, Len(l))

\* _extrair_texto_resposta for a content that is None or a string
_extrair_texto_resposta(content) == IF content = Nenhum THEN "" ELSE content

\* the tool calls a response of the provider may carry: a registered tool
\* with arguments it accepts, with arguments it raises on, and a tool that
\* is not registered
ChamadaOk == [name |-> "consultar_cliente", args |-> "validos"]

ChamadaFalha == [name |-> "consultar_cliente", args |-> "invalidos"]

ChamadaAusente == [name |-> "doesNotExist", args |-> "validos"]

\* the responses invocar_llm may return
RespostasDoProvider ==
    { Resposta("texto", <<>>),
      Resposta(Nenhum, <<>>),
      Resposta(Nenhum, <<ChamadaOk>>),
      Resposta("texto", <<ChamadaOk>>),
      Resposta(Nenhum, <<ChamadaAusente, ChamadaOk>>),
      Resposta(Nenhum, <<ChamadaFalha, ChamadaOk>>) }

\* the ids the provider gives the tool calls of its n-th response
ComIds(calls, n) ==
    [i \in 1..Len(calls) |->
        [name |-> calls[i].name, args |-> calls[i].args, id |-> <<n, i>>]]

\* self.tools_by_name[tool_name].invoke(tool_args): a value, or an exception
InvocarTool(name, args) ==
    IF args = "validos" THEN [raised |-> FALSE, value |-> "resultado"]
    ELSE [raised |-> TRUE, value |-> "ValueError"]

\* a lookup of the tool with no test that it is registered: KeyError escapes
ExecutarToolSemLookup(tools, tc) ==
    IF tc.name \in tools
    THEN LET r == InvocarTool(tc.name, tc.args)
         IN  IF r.raised THEN [ok |-> TRUE, result |-> "Erro ao executar"]
             ELSE [ok |-> TRUE, result |-> r.value]
    ELSE [ok |-> FALSE, result |-> "KeyError"]

\* a tool invoked outside of try/except: its exception escapes
ExecutarToolSemTry(tools, tc) ==
    IF tc.name \in tools
    THEN LET r == InvocarTool(tc.name, tc.args)
         IN  IF r.raised THEN [ok |-> FALSE, result |-> r.value]
             ELSE [ok |-> TRUE, result |-> r.value]
    ELSE [ok |-> TRUE, result |-> "Ferramenta nao encontrada"]

\* lines 490-499: the result of one tool call; ok says no exception escapes
ExecutarTool(tools, tc) ==
    IF tc.name \in tools
    THEN LET r == InvocarTool(tc.name, tc.args)
         IN  IF r.raised THEN [ok |-> TRUE, result |-> "Erro ao executar"]
             ELSE [ok |-> TRUE, result |-> r.value]
    ELSE [ok |-> TRUE, result |-> "Ferramenta nao encontrada"]

\* a record of the executed calls that is put in front of the list
RegistrarNaFrente(execs, tc, result) ==
    <<[name |-> tc.name, args |-> tc.args, result |-> result]>> \o execs

\* tool_calls_executados.append({...}), lines 501-505
RegistrarExecucao(execs, tc, result) ==
    Append(execs, [name |-> tc.name, args |-> tc.args, result |-> result])

\* a loop that adds no message for a tool that is not registered
AnexarResultadoSoRegistradas(msgs, tools, tc, result) ==
    IF tc.name \in tools THEN Append(msgs, ToolMessage(result, tc.id)) ELSE msgs

\* mensagens.append(ToolMessage(...)), lines 508-511
AnexarResultado(msgs, tools, tc, result) == Append(msgs, ToolMessage(result, tc.id))

\* the for loop of lines 483-511 over the tool calls of a response
RECURSIVE ExecutarCalls(_, _, _)
ExecutarCalls(tools, calls, acc) ==
    IF calls = <<>> THEN acc
    ELSE LET tc == Head(calls)
             r == ExecutarTool(tools, tc)
         IN  IF ~r.ok THEN [acc EXCEPT !.ok = FALSE]
             ELSE ExecutarCalls(tools, Tail(calls),
                    [ok |-> TRUE,
                     execs |-> RegistrarExecucao(acc.execs, tc, r.result),
                     msgs |-> AnexarResultado(acc.msgs, tools, tc, r.result)])

\* a loop test that forgets the bound on the rounds
ContinuaSemLimite(r, n) == r.tool_calls # <<>>

\* the test of the while loop, line 478
ContinuaLoop(r, n) == r.tool_calls # <<>> /\ n < max_iteracoes

\* the sizes of the memory when the loop runs: below, at and above the window
TamanhosDeMemoria == {0, 1} \cup ((JanelaHistorico - 1)..MaxHistorico)

\* one handler exists, its tools are registered, the memory holds messages
InitTools ==
    /\ env_keys = 1
    /\ env_model = ModelosPadrao[1]
    /\ LET r == BaseAgentInit(Nenhum, [keys |-> <<>>, idx |-> 0,
                                       esg |-> [k \in {} |-> {}], mf |-> ModelosPadrao])
           So(x, nada) == [a \in Agents |-> IF a = PrimeiroAgente THEN x ELSE nada]
       IN  /\ _api_keys_disponiveis = r.c.keys
           /\ _api_key_atual_idx = r.c.idx
           /\ _modelos_esgotados_por_key = r.c.esg
           /\ MODELOS_FALLBACK = r.c.mf
           /\ construido = So(TRUE, FALSE)
           /\ api_key = So(r.s.api_key, Nenhum)
           /\ modelo_atual = So(r.s.modelo_atual, Nenhum)
           /\ modelo_atual_idx = So(r.s.modelo_atual_idx, 0)
           /\ llm = So(r.s.llm, _criar_llm(Nenhum, Nenhum))
    /\ _memoria_compartilhada \in TamanhosDeMemoria
    /\ SemChamada
    /\ tools_by_name = ToolsRegistradas
    /\ ToolsParado
    /\ OrqConstruido

poolVars == <<envVars, classVars, selfVars, callVars, _memoria_compartilhada>>

\* processar_com_tools is entered, lines 460-471: the transcript of the
\* first call of the gateway
ProcessarComTools(um) ==
    /\ tpc = "idle"
    /\ usar_memoria' = um
    /\ mensagens' = <<SystemMessage>>
                        \o (IF um THEN Ultimas(obter_historico_memoria, JanelaHistorico)
                            ELSE <<>>)
                        \o <<HumanMessage>>
    /\ tpc' = "chamando"
    /\ chamadas' = 1
    /\ tool_calls_executados' = <<>>
    /\ iteracoes' = 0
    /\ UNCHANGED <<poolVars, orqVars, tools_by_name, resposta, saida>>

\* invocar_llm returns the response r of the provider, lines 471 and 515
GatewayResponde(r) ==
    /\ tpc = "chamando"
    /\ resposta' = Resposta(r.content, ComIds(r.tool_calls, chamadas))
    /\ tpc' = "loop"
    /\ UNCHANGED <<poolVars, orqVars, tools_by_name, usar_memoria, mensagens,
                   tool_calls_executados, iteracoes, chamadas, saida>>

\* invocar_llm raises, and processar_com_tools lets the exception through
GatewayLevanta ==
    /\ tpc = "chamando"
    /\ tpc' = "fim"
    /\ saida' = [tipo |-> "excecao_gateway", texto |-> "", calls |-> <<>>]
    /\ UNCHANGED <<poolVars, orqVars, tools_by_name, usar_memoria, mensagens, resposta,
                   tool_calls_executados, iteracoes, chamadas>>

\* one round of the while loop, lines 478-515: the response joins the
\* transcript, its tool calls are executed, the gateway is called again
Rodada ==
    /\ tpc = "loop"
    /\ ContinuaLoop(resposta, iteracoes)
    /\ iteracoes' = iteracoes + 1
    /\ LET x == ExecutarCalls(tools_by_name, resposta.tool_calls,
                    [ok |-> TRUE, execs |-> tool_calls_executados,
                     msgs |-> Append(mensagens, AIMessage(resposta))])
       IN  /\ mensagens' = x.msgs
           /\ tool_calls_executados' = x.execs
           /\ IF x.ok
              THEN /\ tpc' = "chamando"
                   /\ chamadas' = chamadas + 1
                   /\ UNCHANGED saida
              ELSE /\ tpc' = "fim"
                   /\ saida' = [tipo |-> "excecao_tool", texto |-> "", calls |-> <<>>]
                   /\ UNCHANGED chamadas
    /\ UNCHANGED <<poolVars, orqVars, tools_by_name, usar_memoria, resposta>>

\* the loop is left and the text and the executed calls are returned,
\* lines 517-523
RetornarTexto ==
    /\ tpc = "loop"
    /\ ~ContinuaLoop(resposta, iteracoes)
    /\ tpc' = "fim"
    /\ saida' = [tipo |-> "retorno",
                 texto |-> _extrair_texto_resposta(resposta.content),
                 calls |-> tool_calls_executados]
    /\ UNCHANGED <<poolVars, orqVars, tools_by_name, usar_memoria, mensagens, resposta,
                   tool_calls_executados, iteracoes, chamadas>>

\* the caller takes the result or the exception; the frame is gone
Sair ==
    /\ tpc = "fim"
    /\ tpc' = "idle"
    /\ usar_memoria' = TRUE
    /\ mensagens' = <<>>
    /\ resposta' = Resposta(Nenhum, <<>>)
    /\ tool_calls_executados' = <<>>
    /\ iteracoes' = 0
    /\ chamadas' = 0
    /\ saida' = [tipo |-> Nenhum, texto |-> "", calls |-> <<>>]
    /\ UNCHANGED <<poolVars, orqVars, tools_by_name>>

NextTools ==
    \/ \E um \in BOOLEAN : ProcessarComTools(um)
    \/ \E r \in RespostasDoProvider : GatewayResponde(r)
    \/ GatewayLevanta
    \/ Rodada
    \/ RetornarTexto
    \/ Sair

SpecTools == InitTools /\ [][NextTools]_vars

\* ------------------------------------------------------------------------
\* The Orchestrator: processar_mensagem over its four handlers. A handler is
\* seen from the Orchestrator: processar returns a result record or raises.
\* contexto['historico'] is kept as the number of its entries.
\* ------------------------------------------------------------------------
\* the customers of data/clientes.csv, by name, and the cpf column
Clientes == <<"ana", "bia">>

CpfDe(cliente) ==
    CASE cliente = "ana" -> "11111111111"
      [] cliente = "bia" -> "22222222222"

\* the keys of mapeamento in _trocar_agente
Registrados == {"triagem", "credito", "entrevista", "cambio"}

\* the value of a key that a result record does not have
Ausente == "ausente"

\* the records a handler's processar may return: the reply (missing, empty,
\* blank or a text), the next-handler directive (none, a registered handler
\* or a name that is not registered), the customer and the end directive
RespostasDeHandler == {Ausente, "", "  ", "texto"}

ResultadosDeHandler ==
    { HandlerResult(r, p, c, e) :
        r \in RespostasDeHandler, p \in {Nenhum, "inexistente"} \cup Registrados,
        c \in {Nenhum, Clientes[1]}, e \in BOOLEAN }

\* s.strip() of the replies of RespostasDeHandler
Strip(r) == IF r = "  " THEN "" ELSE r

\* resultado.get(k) and resultado.get(k, default) for the key resposta
Get(r) == IF r = Ausente THEN Nenhum ELSE r

GetOu(r, default) == IF r = Ausente THEN default ELSE r

\* _obter_nome_agente_atual, lines 155-166
_obter_nome_agente_atual(ag) ==
    CASE ag = "triagem" -> "Triagem"
      [] ag = "credito" -> "Crédito"
      [] ag = "entrevista" -> "Entrevista de Crédito"
      [] ag = "cambio" -> "Câmbio"
      [] OTHER -> "Sistema"

\* a test that never asks for the second invocation
NuncaReprocessa(res) == FALSE

\* a test that asks for the second invocation whatever the reply is
SempreReprocessa(res) == TRUE

\* line 84: not resultado.get("resposta") or resultado.get("resposta").strip() == ""
RespostaVazia(res) ==
    Get(res.resposta) \in {Nenhum, ""} \/ Strip(Get(res.resposta)) = ""

\* an update that stores the customer without marking the context authenticated
AtualizaContextoSemAutenticar(ctx, res) ==
    IF res.cliente # Nenhum
    THEN [ctx EXCEPT !.cliente = res.cliente, !.cpf = CpfDe(res.cliente)]
    ELSE ctx

\* lines 72-75: the customer of the result goes into the context
AtualizaContexto(ctx, res) ==
    IF res.cliente # Nenhum
    THEN [ctx EXCEPT !.cliente = res.cliente, !.cpf = CpfDe(res.cliente), !.autenticado = TRUE]
    ELSE ctx

\* a switch that takes the directive's name without looking it up
_trocar_agente_sem_mapa(nome, cliente, ag, cd, mem) ==
    [agente_atual |-> nome,
     cliente_de |-> IF cliente # Nenhum /\ nome \in DOMAIN cd
                    THEN [cd EXCEPT ![nome] = cliente] ELSE cd,
     memoria |-> IF cliente # Nenhum /\ nome = "entrevista" THEN 0 ELSE mem]

\* _trocar_agente, lines 137-153: the new current handler, the cliente
\* attributes of the handlers and the shared memory (definir_cliente of the
\* interview handler resets it and so clears the memory)
_trocar_agente(nome, cliente, ag, cd, mem) ==
    IF nome \in Registrados
    THEN [agente_atual |-> nome,
          cliente_de |-> IF cliente # Nenhum /\ nome \in DOMAIN cd
                         THEN [cd EXCEPT ![nome] = cliente] ELSE cd,
          memoria |-> IF cliente # Nenhum /\ nome = "entrevista" THEN 0 ELSE mem]
    ELSE [agente_atual |-> ag, cliente_de |-> cd, memoria |-> mem]

InitOrq ==
    /\ env_keys = 1
    /\ env_model = ModelosPadrao[1]
    /\ SemHandlers
    /\ _memoria_compartilhada \in 0..MaxMemoria
    /\ SemChamada
    /\ tools_by_name = {}
    /\ ToolsParado
    /\ OrqConstruido

naoOrqVars == <<envVars, classVars, selfVars, callVars, toolVars, convVars>>

\* processar_mensagem is entered and calls processar of the current
\* handler, lines 54-63
ProcessarMensagem ==
    /\ opc = "idle"
    /\ contexto.historico < MaxTurnos
    /\ opc' = "processar1"
    /\ historico_antes' = contexto.historico
    /\ invocados' = <<agente_atual>>
    /\ UNCHANGED <<naoOrqVars, _memoria_compartilhada, agente_atual, contexto,
                   cliente_de, resultado_handler, retorno>>

\* a return that keeps the end directive of the turn's first result
RegistraERetornaPrimeiro(res, ag, ctx) ==
    /\ contexto' = [ctx EXCEPT !.historico = @ + 1]
    /\ retorno' = Retorno(GetOu(res.resposta, "Desculpe, ocorreu um erro."),
                          res.encerrar \/ resultado_handler.encerrar,
                          _obter_nome_agente_atual(ag), Nenhum)
    /\ opc' = "retornado"

\* lines 96-111: the turn joins the log and the record is returned
RegistraERetorna(res, ag, ctx) ==
    /\ contexto' = [ctx EXCEPT !.historico = @ + 1]
    /\ retorno' = Retorno(GetOu(res.resposta, "Desculpe, ocorreu um erro."),
                          res.encerrar, _obter_nome_agente_atual(ag), Nenhum)
    /\ opc' = "retornado"

\* the first processar returns res, lines 63-111: the context is updated,
\* the handler named by the directive becomes current, and either the new
\* handler is invoked with the same message or the turn is logged and returned
HandlerRetorna(res) ==
    /\ opc = "processar1"
    /\ resultado_handler' = res
    /\ LET ctx == AtualizaContexto(contexto, res)
           t == IF res.proximo_agente # Nenhum
                THEN _trocar_agente(res.proximo_agente, res.cliente, agente_atual,
                                    cliente_de, _memoria_compartilhada)
                ELSE [agente_atual |-> agente_atual, cliente_de |-> cliente_de,
                      memoria |-> _memoria_compartilhada]
       IN  /\ agente_atual' = t.agente_atual
           /\ cliente_de' = t.cliente_de
           /\ _memoria_compartilhada' = t.memoria
           /\ IF res.proximo_agente # Nenhum /\ RespostaVazia(res)
              THEN /\ opc' = "processar2"
                   /\ contexto' = ctx
                   /\ invocados' = Append(invocados, t.agente_atual)
                   /\ UNCHANGED retorno
              ELSE /\ RegistraERetorna(res, t.agente_atual, ctx)
                   /\ UNCHANGED invocados
    /\ UNCHANGED <<naoOrqVars, historico_antes>>

\* the second processar, of the new handler, returns res: lines 89-111
HandlerRetornaDeNovo(res) ==
    /\ opc = "processar2"
    /\ resultado_handler' = res
    /\ RegistraERetorna(res, agente_atual, contexto)
    /\ UNCHANGED <<naoOrqVars, _memoria_compartilhada, agente_atual, cliente_de,
                   historico_antes, invocados>>

\* str(e) of the exceptions a handler's processar lets out: the gateway's
\* (base_agent.py lines 338 and 435) and a handler's own
ErrosDeHandler ==
    { "Todos os modelos e API keys estão esgotados.",
      "Erro ao chamar LLM: 500 Internal",
      "Falha na interpretação da IA: timeout" }

\* line 122: the apology followed by str(e) (its leading symbol is left out)
MensagemDeErro(erro) ==
    CASE erro = "Todos os modelos e API keys estão esgotados." ->
            "Erro na interpretação da IA: Todos os modelos e API keys estão esgotados."
      [] erro = "Erro ao chamar LLM: 500 Internal" ->
            "Erro na interpretação da IA: Erro ao chamar LLM: 500 Internal"
      [] erro = "Falha na interpretação da IA: timeout" ->
            "Erro na interpretação da IA: Falha na interpretação da IA: timeout"

\* an except branch that answers that the conversation is over
RetornoDeErroEncerra(erro, ag) ==
    Retorno(MensagemDeErro(erro), TRUE, _obter_nome_agente_atual(ag), erro)

\* lines 121-127: the record the except branch returns
RetornoDeErro(erro, ag) ==
    Retorno(MensagemDeErro(erro), FALSE, _obter_nome_agente_atual(ag), erro)

\* processar raises, in the first or in the second invocation: the except
\* branch, lines 113-127
HandlerLevanta(erro) ==
    /\ opc \in {"processar1", "processar2"}
    /\ retorno' = RetornoDeErro(erro, agente_atual)
    /\ opc' = "retornado"
    /\ UNCHANGED <<naoOrqVars, _memoria_compartilhada, agente_atual, contexto,
                   cliente_de, resultado_handler, historico_antes, invocados>>

\* the caller takes the record
Devolver ==
    /\ opc = "retornado"
    /\ opc' = "idle"
    /\ resultado_handler' = HandlerResult(Nenhum, Nenhum, Nenhum, FALSE)
    /\ retorno' = Retorno(Nenhum, FALSE, Nenhum, Nenhum)
    /\ historico_antes' = 0
    /\ invocados' = <<>>
    /\ UNCHANGED <<naoOrqVars, _memoria_compartilhada, agente_atual, contexto,
                   cliente_de>>

NextOrq ==
    \/ ProcessarMensagem
    \/ \E res \in ResultadosDeHandler : HandlerRetorna(res)
    \/ \E res \in ResultadosDeHandler : HandlerRetornaDeNovo(res)
    \/ \E erro \in ErrosDeHandler : HandlerLevanta(erro)
    \/ Devolver

SpecOrq == InitOrq /\ [][NextOrq]_vars

\* ------------------------------------------------------------------------
\* A conversation: the Orchestrator with its four handlers as their processar
\* is written. A handler's processar is seen through the paths of its code:
\* what it returns or raises, what it writes to the shared memory and the
\* stage it leaves its agent in. The provider's answer and the content of the
\* user's message choose the path. A call of processar_mensagem runs as one
\* step; the record it returned stays visible until the caller takes it.
\* ------------------------------------------------------------------------
\* the stages of the interview, in the order _processar_etapa walks them
OrdemEntrevista ==
    <<"inicio", "renda", "emprego", "despesas", "dependentes", "dividas",
      "finalizado">>

\* the state the handlers keep between turns
EstadoDosHandlers(et, ee, cd, est, dc) ==
    [etapa |-> et, etapa_entrevista |-> ee, cliente_de |-> cd, estado |-> est,
     dados_coletados |-> dc]

\* processar returned res after the writes esc, leaving the handlers as h
Devolve(res, esc, h) ==
    [levanta |-> Nenhum, res |-> res, esc |-> esc, h |-> h, gh |-> SemEfeito]

\* processar raised erro, which its provider call raised, after the writes esc
Levanta(erro, esc, h) ==
    [levanta |-> erro, res |-> HandlerResult(Nenhum, Nenhum, Nenhum, FALSE),
     esc |-> esc, h |-> h, gh |-> [SemEfeito EXCEPT !.falhas = {erro}]]

\* str(e) of what invocar_llm raises: base_agent.py lines 338 (every
\* candidate of every credential is exhausted) and 435 (any other error)
ErroNaoQuota == "Erro ao chamar LLM: 500 Internal"

ErrosDoGateway == {"Todos os modelos e API keys estão esgotados.", ErroNaoQuota}

\* the outcome o reached through an except branch that caught erro
AposFalha(o, erro) == [o EXCEPT !.gh.falhas = @ \cup {erro}]

\* the reply of o tells the user that n attempts remain
Anuncia(o, n) == [o EXCEPT !.gh.restantes = @ \cup {n}]

\* o called atualizar_score_cliente for the customer c with the fields d set
Grava(o, c, d) == [o EXCEPT !.gh.scores = Append(@, [cliente |-> c, dados |-> d])]

\* the ghosts of two invocations of one turn
Junta(g1, g2) ==
    [falhas |-> g1.falhas \cup g2.falhas, scores |-> g1.scores \o g2.scores,
     restantes |-> g1.restantes \cup g2.restantes]

\* the CPFs a message can carry: those of the customers and one that
\* data/clientes.csv does not have
CpfDesconhecido == "00000000000"

Cpfs == { CpfDe(Clientes[i]) : i \in DOMAIN Clientes } \cup {CpfDesconhecido}

\* an authentication that answers with a customer whatever the CPF is
autenticar_qualquer(cpf, confere) == IF confere THEN Clientes[1] ELSE Nenhum

\* autenticar_cliente, csv_handler.py lines 20-51: the row of the CPF when
\* its data_nascimento equals the date given (confere), else None
autenticar_cliente(cpf, confere) ==
    IF confere /\ \E i \in DOMAIN Clientes : CpfDe(Clientes[i]) = cpf
    THEN CHOOSE c \in { Clientes[i] : i \in DOMAIN Clientes } : CpfDe(c) = cpf
    ELSE Nenhum

\* TriagemAgent.processar, triagem_agent.py lines 23-306. The message is
\* written first (line 38). The provider calls of the stages coletando_cpf
\* and coletando_nascimento are inside try blocks whose except branch
\* extracts the answer from the message itself; the one of the stage
\* autenticado (line 266) is outside any try.
TriagemProcessar(h) ==
    LET est == h.estado
        texto(h2) == Devolve(HandlerResult("texto", Nenhum, h2.estado.cliente, FALSE),
                             <<"human", "ai">>, h2)
        vai(e) == [h EXCEPT !.etapa = e]
        comCpf(c) == [h EXCEPT !.etapa = "coletando_nascimento", !.estado.cpf = c]
        falhou == est.tentativas_falha + 1
        \* lines 172-176 and 204-208
        autentica(c) == texto([h EXCEPT !.etapa = "autenticado", !.estado.cliente = c,
                                        !.estado.tentativas_falha = 0])
        \* lines 190-195 and 210-215
        denovo == Anuncia(texto([h EXCEPT !.etapa = "coletando_cpf",
                                          !.estado.tentativas_falha = falhou,
                                          !.estado.cpf = Nenhum]), 3 - falhou)
        \* lines 167-195
        TentaAutenticar(confere) ==
            LET c == autenticar_cliente(est.cpf, confere)
            IN  IF c # Nenhum THEN autentica(c)
                ELSE IF falhou >= 3
                THEN Devolve(HandlerResult("texto", Nenhum, Nenhum, TRUE), <<"human">>,
                             [h EXCEPT !.etapa = "falha",
                                       !.estado.tentativas_falha = falhou])
                ELSE denovo
        \* lines 200-215
        TentaAutenticarNoExcept(confere) ==
            LET c == autenticar_cliente(est.cpf, confere)
            IN  IF c # Nenhum THEN autentica(c) ELSE denovo
    IN  \* lines 41-48: the user asks to end
        { Devolve(HandlerResult("texto", Nenhum, Nenhum, TRUE), <<"human">>, h) }
        \cup
        CASE h.etapa = "saudacao" -> { texto(vai("coletando_cpf")) }
          [] h.etapa = "coletando_cpf" ->
                \* lines 62-110: a CPF is found or the user is asked again
                { texto(comCpf(c)) : c \in Cpfs } \cup { texto(h) }
                \* lines 111-119: the provider call failed
                \cup { AposFalha(o, erro) :
                         o \in { texto(comCpf(c)) : c \in Cpfs } \cup { texto(h) },
                         erro \in ErrosDoGateway }
          [] h.etapa = "coletando_nascimento" ->
                \* lines 123-194: a date is found; without one line 196 raises
                \* a NameError and the except branch asks again
                { TentaAutenticar(confere) : confere \in BOOLEAN } \cup { texto(h) }
                \* lines 198-217: the provider call failed
                \cup { AposFalha(o, erro) :
                         o \in { TentaAutenticarNoExcept(confere) : confere \in BOOLEAN }
                               \cup { texto(h) },
                         erro \in ErrosDoGateway }
          [] h.etapa = "autenticado" ->
                { texto(h) }
                \cup { Devolve(HandlerResult("", p, est.cliente, FALSE), <<"human">>, h) :
                         p \in {"credito", "cambio", "entrevista"} }
                \cup { Levanta(erro, <<"human">>, h) : erro \in ErrosDeHandler }
          [] OTHER ->
                \* lines 295-297: any other stage starts over
                { texto(vai("saudacao")) }

\* lines 30-33 of credito_agent.py and 37-40 of entrevista_agent.py: the
\* handler takes the customer of the context when it has none (the cpf of
\* the context is set together with its customer)
ClienteDoHandler(nome, h, ctx) ==
    IF h.cliente_de[nome] # Nenhum THEN h.cliente_de[nome] ELSE ctx.cliente

\* lines 35-40 and 42-47: without a customer the handler sends the user back
SemCliente(h) ==
    { Devolve(HandlerResult("texto", "triagem", Nenhum, FALSE), <<>>, h) }

\* CreditoAgent.processar, credito_agent.py lines 22-227. Line 213 takes the
\* provider's text, which may be empty, as the reply.
CreditoProcessar(h, ctx) ==
    LET c == ClienteDoHandler("credito", h, ctx)
        h1 == [h EXCEPT !.cliente_de["credito"] = c]
    IN  IF c = Nenhum THEN SemCliente(h1)
        ELSE { Devolve(HandlerResult(r, Nenhum, Nenhum, FALSE), <<"human", "ai">>, h1) :
                 r \in {"texto", ""} }
             \cup { Devolve(HandlerResult("texto", Nenhum, Nenhum, TRUE), <<"human">>, h1) }
             \cup { Devolve(HandlerResult("", p, Nenhum, FALSE), <<"human">>, h1) :
                      p \in {"entrevista", "cambio"} }
             \cup { Devolve(HandlerResult("texto", "entrevista", Nenhum, FALSE),
                            <<"human", "ai">>, h1) }
             \cup { Levanta(erro, <<"human">>, h1) : erro \in ErrosDeHandler }

\* a walk of the interview that leaves out the stage after e
ProximaEtapaSalta(e) ==
    At(OrdemEntrevista,
       IF IndexOf(OrdemEntrevista, e) + 2 < Len(OrdemEntrevista)
       THEN IndexOf(OrdemEntrevista, e) + 2 ELSE IndexOf(OrdemEntrevista, e) + 1)

\* the stage after e in the interview
ProximaEtapa(e) == At(OrdemEntrevista, IndexOf(OrdemEntrevista, e) + 1)

\* the key of dados_coletados that the stage e sets, lines 266, 301, 352, 414, 470
CampoDaEtapa(e) ==
    CASE e = "renda" -> "renda_mensal"
      [] e = "emprego" -> "tipo_emprego"
      [] e = "despesas" -> "despesas_fixas"
      [] e = "dependentes" -> "num_dependentes"
      [] e = "dividas" -> "tem_dividas"

\* EntrevistaAgent.processar, entrevista_agent.py lines 28-250, with
\* _processar_etapa, lines 252-501, and _calcular_e_atualizar_score, lines
\* 608-627. In the stage inicio the message is not written (the branch
\* returns or raises before line 147). The stage renda calls no provider;
\* the later stages catch what their provider call raises.
EntrevistaProcessar(h, ctx) ==
    LET c == ClienteDoHandler("entrevista", h, ctx)
        h1 == [h EXCEPT !.cliente_de["entrevista"] = c]
        e == h.etapa_entrevista
        vai(e2) == [h1 EXCEPT !.etapa_entrevista = e2]
        texto == HandlerResult("texto", Nenhum, Nenhum, FALSE)
        avanca == [h1 EXCEPT !.etapa_entrevista = ProximaEtapa(e),
                             !.dados_coletados = @ \cup {CampoDaEtapa(e)}]
        \* the answer is taken: the next question, or the score and the
        \* handoff to the credit handler
        aceita == IF e = "dividas"
                  THEN Grava(Devolve(HandlerResult("texto", "credito", Nenhum, FALSE),
                                     <<"human", "ai">>, avanca),
                             c, avanca.dados_coletados)
                  ELSE Devolve(texto, <<"human", "ai">>, avanca)
        pergunta == Devolve(texto, <<"human", "ai">>, h1)
        finalizado ==
            { Devolve(HandlerResult("", p, Nenhum, FALSE), <<"human">>, h1) :
                p \in {"credito", "cambio"} } \cup { pergunta }
    IN  IF c = Nenhum THEN SemCliente(h1)
        ELSE CASE e = "inicio" ->
                    { Devolve(texto, <<"ai">>, vai("renda")),
                      Devolve(texto, <<"ai">>, h1) }
                    \cup { Levanta(erro, <<>>, h1) : erro \in ErrosDeHandler }
               [] e = "finalizado" ->
                    finalizado
                    \* lines 209-232: the provider call failed
                    \cup { AposFalha(o, erro) : o \in finalizado, erro \in ErrosDoGateway }
               [] OTHER ->
                    { \* lines 236-241: the user cancels
                      Devolve(texto, <<"human">>, h1), pergunta, aceita }
                    \cup IF e = "renda" THEN {}
                         ELSE { AposFalha(o, erro) :
                                  o \in {pergunta, aceita}, erro \in ErrosDoGateway }

\* CambioAgent.processar, cambio_agent.py lines 16-183: the provider call of
\* line 104 is outside any try; line 175 takes the provider's text, which
\* may be empty, as the reply
CambioProcessar(h) ==
    { Devolve(HandlerResult(r, Nenhum, Nenhum, FALSE), <<"human", "ai">>, h) :
        r \in {"texto", ""} }
    \cup { Devolve(HandlerResult("texto", Nenhum, Nenhum, TRUE), <<"human">>, h) }
    \cup { Devolve(HandlerResult("", p, Nenhum, FALSE), <<"human">>, h) :
             p \in {"credito", "entrevista"} }
    \cup { Levanta(erro, <<"human">>, h) : erro \in ErrosDeHandler }

\* self.agente_atual.processar(mensagem, self.contexto)
Processar(ag, h, ctx) ==
    CASE ag = "triagem" -> TriagemProcessar(h)
      [] ag = "credito" -> CreditoProcessar(h, ctx)
      [] ag = "entrevista" -> EntrevistaProcessar(h, ctx)
      [] ag = "cambio" -> CambioProcessar(h)

\* _trocar_agente calls definir_cliente of the interview handler, which
\* resets it: orchestrator.py line 146, entrevista_agent.py lines 665-668
DefineClienteDaEntrevista(nome, cliente) ==
    cliente # Nenhum /\ nome = "entrevista"

\* lines 80-81 for the handlers as they are: the new current handler, the
\* handlers' state, the memory and what was done to it
TrocaNaConversa(res, ag, h, mem) ==
    LET t == _trocar_agente(res.proximo_agente, res.cliente, ag, h.cliente_de, mem)
        d == DefineClienteDaEntrevista(res.proximo_agente, res.cliente)
    IN  [agente_atual |-> t.agente_atual,
         h |-> [h EXCEPT !.cliente_de = t.cliente_de,
                         !.etapa_entrevista = IF d THEN "inicio" ELSE @,
                         !.dados_coletados = IF d THEN {} ELSE @],
         memoria |-> t.memoria,
         esc |-> IF d THEN <<"clear">> ELSE <<>>]

\* the state a call of processar_mensagem ends in
FimDoTurno(ag, h, ctx, mem, ret, res, inv, esc, gh) ==
    [agente_atual |-> ag, h |-> h, contexto |-> ctx, memoria |-> mem,
     retorno |-> ret, resultado |-> res, invocados |-> inv, escritas |-> esc,
     turno |-> gh]

\* lines 96-111 as a value: the turn joins the log, the record is built
Registrado(ctx) == [ctx EXCEPT !.historico = @ + 1]

RetornoDe(res, ag) ==
    Retorno(GetOu(res.resposta, "Desculpe, ocorreu um erro."), res.encerrar,
            _obter_nome_agente_atual(ag), Nenhum)

\* the second processar, lines 84-94, and what follows it
Reprocessa(t, ctx, esc, gh) ==
    { IF o.levanta # Nenhum
      THEN FimDoTurno(t.agente_atual, o.h, ctx, t.memoria + Len(o.esc),
                      RetornoDeErro(o.levanta, t.agente_atual), o.res,
                      <<t.agente_atual>>, esc \o o.esc, Junta(gh, o.gh))
      ELSE FimDoTurno(t.agente_atual, o.h, Registrado(ctx), t.memoria + Len(o.esc),
                      RetornoDe(o.res, t.agente_atual), o.res,
                      <<t.agente_atual>>, esc \o o.esc, Junta(gh, o.gh)) :
      o \in Processar(t.agente_atual, t.h, ctx) }

\* processar_mensagem, lines 54-127, after the first processar gave o
AposProcessar(o, ag, ctx, mem) ==
    LET mem1 == mem + Len(o.esc)
        ctx1 == AtualizaContexto(ctx, o.res)
        t == TrocaNaConversa(o.res, ag, o.h, mem1)
    IN  IF o.levanta # Nenhum
        THEN { FimDoTurno(ag, o.h, ctx, mem1, RetornoDeErro(o.levanta, ag), o.res,
                          <<>>, o.esc, o.gh) }
        ELSE IF o.res.proximo_agente = Nenhum
        THEN { FimDoTurno(ag, o.h, Registrado(ctx1), mem1, RetornoDe(o.res, ag),
                          o.res, <<>>, o.esc, o.gh) }
        ELSE IF RespostaVazia(o.res)
        THEN Reprocessa(t, ctx1, o.esc \o t.esc, o.gh)
        ELSE { FimDoTurno(t.agente_atual, t.h, Registrado(ctx1), t.memoria,
                          RetornoDe(o.res, t.agente_atual), o.res, <<>>,
                          o.esc \o t.esc, o.gh) }

\* the ways a call of processar_mensagem can end
Turnos(ag, h, ctx, mem) ==
    UNION { AposProcessar(o, ag, ctx, mem) : o \in Processar(ag, h, ctx) }

\* a process that has constructed its first Orchestrator
InitConversa ==
    /\ env_keys = 1
    /\ env_model = ModelosPadrao[1]
    /\ SemHandlers
    /\ _memoria_compartilhada = 0
    /\ SemChamada
    /\ tools_by_name = {}
    /\ ToolsParado
    /\ OrqConstruido

naoConvVars == <<envVars, classVars, selfVars, callVars, toolVars>>

\* processar_mensagem(mensagem), as a whole
ProcessarMensagemNaConversa ==
    /\ opc = "idle"
    /\ contexto.historico < MaxTurnosConversa
    /\ _memoria_compartilhada + 3 <= MaxMensagens
    /\ \E f \in Turnos(agente_atual,
                       EstadoDosHandlers(etapa, etapa_entrevista, cliente_de,
                                         estado, dados_coletados),
                       contexto, _memoria_compartilhada) :
          /\ f.h.estado.tentativas_falha <= MaxTentativas
          /\ agente_atual' = f.agente_atual
          /\ etapa' = f.h.etapa
          /\ etapa_entrevista' = f.h.etapa_entrevista
          /\ cliente_de' = f.h.cliente_de
          /\ estado' = f.h.estado
          /\ dados_coletados' = f.h.dados_coletados
          /\ contexto' = f.contexto
          /\ _memoria_compartilhada' = f.memoria
          /\ retorno' = f.retorno
          /\ resultado_handler' = f.resultado
          /\ invocados' = <<agente_atual>> \o f.invocados
          /\ escritas' = f.escritas
          /\ turno' = f.turno
    /\ opc' = "retornado"
    /\ historico_antes' = contexto.historico
    /\ UNCHANGED <<naoConvVars, encerrou>>

\* the caller takes the record
DevolverNaConversa ==
    /\ opc = "retornado"
    /\ opc' = "idle"
    /\ encerrou' = (encerrou \/ retorno.encerrar)
    /\ resultado_handler' = HandlerResult(Nenhum, Nenhum, Nenhum, FALSE)
    /\ retorno' = Retorno(Nenhum, FALSE, Nenhum, Nenhum)
    /\ historico_antes' = 0
    /\ invocados' = <<>>
    /\ escritas' = <<>>
    /\ turno' = SemEfeito
    /\ UNCHANGED <<naoConvVars, _memoria_compartilhada, agente_atual, contexto,
                   cliente_de, etapa, etapa_entrevista, estado, dados_coletados>>

\* the context of a conversation that has not begun, lines 29-34 and 180-185
ContextoVazio ==
    [cliente |-> Nenhum, cpf |-> Nenhum, autenticado |-> FALSE, historico |-> 0]

\* Orchestrator.resetar, lines 168-187, with TriagemAgent.resetar and
\* EntrevistaAgent.resetar: the memory is cleared, the stages and what the
\* stages collected go back, the credit handler forgets its customer; the
\* cliente attribute of the interview handler is not assigned
OrchestratorResetar ==
    /\ opc = "idle"
    /\ _memoria_compartilhada' = 0
    /\ etapa' = "saudacao"
    /\ estado' = EstadoInicial
    /\ etapa_entrevista' = "inicio"
    /\ dados_coletados' = {}
    /\ agente_atual' = "triagem"
    /\ contexto' = ContextoVazio
    /\ cliente_de' = [cliente_de EXCEPT !["credito"] = Nenhum]
    /\ encerrou' = FALSE
    /\ UNCHANGED <<naoConvVars, opc, resultado_handler, retorno, historico_antes,
                   invocados, escritas, turno>>

\* Orchestrator.__init__, lines 14-37, in a process that has had one before:
\* four new handlers and a new context; BaseAgent.__init__ creates the shared
\* memory only when there is none (base_agent.py lines 131-133)
NovoOrchestrator ==
    /\ opc = "idle"
    /\ etapa' = "saudacao"
    /\ estado' = EstadoInicial
    /\ etapa_entrevista' = "inicio"
    /\ dados_coletados' = {}
    /\ agente_atual' = "triagem"
    /\ contexto' = ContextoVazio
    /\ cliente_de' = [credito |-> Nenhum, entrevista |-> Nenhum]
    /\ encerrou' = FALSE
    /\ UNCHANGED <<naoConvVars, _memoria_compartilhada, opc, resultado_handler,
                   retorno, historico_antes, invocados, escritas, turno>>

NextConversa ==
    \/ ProcessarMensagemNaConversa
    \/ DevolverNaConversa
    \/ OrchestratorResetar
    \/ NovoOrchestrator

SpecConversa == InitConversa /\ [][NextConversa]_vars

\* ------------------------------------------------------------------------
\* Properties of the gateway and the pool
\* ------------------------------------------------------------------------
\* the (slot, candidate) pairs of the requests i..j of a call
ParesDe(rs, i, j) == { <<rs[n].key, rs[n].modelo>> : n \in i..j }

\* the call of handler a saw N quota failures in a row and then a success
QuotasDepoisSucesso(a) ==
    /\ pc[a] = "done"
    /\ Len(reqs[a]) >= 1
    /\ reqs[a][Len(reqs[a])].res = "ok"
    /\ \A i \in 1..(Len(reqs[a]) - 1) : reqs[a][i].res = "quota"
    /\ Len(reqs[a]) - 1 < Len(MODELOS_FALLBACK) * Len(_api_keys_disponiveis)

\* C1: a call that starts with an empty ExhaustionSet, sees N quota failures
\* (N < candidates x slots) and then a success returns that response, and the
\* ExhaustionSet is then exactly the N pairs whose requests failed.
C1_QuotasEntaoSucesso ==
    \A a \in Agents :
        (QuotasDepoisSucesso(a) /\ esg_inicio[a] = {}) =>
            /\ resultado[a] = "ok"
            /\ Pares(_modelos_esgotados_por_key) = ParesDe(reqs[a], 1, Len(reqs[a]) - 1)
            /\ Cardinality(Pares(_modelos_esgotados_por_key)) = Len(reqs[a]) - 1

\* a call that crossed to the second credential: three failures, then success
C1_Witness ==
    \E a \in Agents :
        /\ QuotasDepoisSucesso(a)
        /\ esg_inicio[a] = {}
        /\ Len(reqs[a]) = 4
        /\ reqs[a][4].slot = 1

\* C2: the call fails with an all-exhausted error only when every candidate
\* of every credential slot is in the ExhaustionSet.
C2_ErroSoComTudoEsgotado ==
    \A a \in Agents :
        (pc[a] = "done" /\ resultado[a] \in {"exc_esgotados", "exc_todos_esgotados"}) =>
            TodosPares(Classe) \subseteq Pares(_modelos_esgotados_por_key)

\* every pair of the loaded pool is exhausted
TodosEsgotados ==
    /\ Len(_api_keys_disponiveis) > 0
    /\ TodosPares(Classe) \subseteq Pares(_modelos_esgotados_por_key)

\* C3: the quota failure that exhausts the last pair ends the call with the
\* all-exhausted error, and a call that starts with every pair exhausted
\* raises in its first pass through the loop, without a provider request.
C3_EsgotadoLevanta ==
    [][\A a \in Agents :
        /\ (pc[a] = "request" /\ TodosEsgotados') =>
                (pc'[a] = "done" /\ resultado'[a] = "exc_todos_esgotados")
        /\ (pc[a] = "loop" /\ TodosEsgotados
                /\ <<pc[a], pulos[a], reqs[a]>> # <<pc'[a], pulos'[a], reqs'[a]>>) =>
                (/\ pc'[a] = "done"
                 /\ resultado'[a] = "exc_esgotados"
                 /\ reqs'[a] = <<>>)
    ]_vars

\* a call made after the pool was exhausted ended with the error, no request
C3_Witness ==
    \E a \in Agents :
        /\ pc[a] = "done"
        /\ resultado[a] = "exc_esgotados"
        /\ reqs[a] = <<>>
        /\ TodosPares(Classe) \subseteq esg_inicio[a]
        /\ Len(_api_keys_disponiveis) = 2

\* C4: a failure that is not classified as quota exhaustion ends the call at
\* once with the error, and changes neither the ExhaustionSet, nor the
\* credential slot, nor the handler's current candidate.
C4_ErroFatalNaoMuda ==
    [][\A a \in Agents :
        (pc[a] = "request" /\ pc'[a] # "request"
            /\ reqs'[a][Len(reqs'[a])].res = "erro") =>
            /\ pc'[a] = "done"
            /\ resultado'[a] = "exc_erro_llm"
            /\ Len(reqs'[a]) = Len(reqs[a])
            /\ _modelos_esgotados_por_key' = _modelos_esgotados_por_key
            /\ _api_key_atual_idx' = _api_key_atual_idx
            /\ Self(a)' = Self(a)
    ]_vars

\* the provider's non-quota errors are exactly those not classified as quota
C4_Classificacao ==
    \A e \in Erros : _is_quota_exceeded_error(e) <=> e \in ErrosDeQuota

\* a call that failed over once and then met a non-quota error
C4_Witness ==
    \E a \in Agents :
        /\ pc[a] = "done"
        /\ resultado[a] = "exc_erro_llm"
        /\ Len(reqs[a]) = 2
        /\ reqs[a][1].res = "quota"
        /\ reqs[a][2].res = "erro"

\* C5: a call makes at most len(candidates) x len(slots) passes through its
\* loop, provider requests and skipped candidates together, so it ends.
C5_TerminaLimitado ==
    \A a \in Agents :
        Len(reqs[a]) + pulos[a] <= Len(MODELOS_FALLBACK) * Len(_api_keys_disponiveis)

\* a call that ended after as many requests as the bound allows
C5_Witness ==
    \E a \in Agents :
        /\ pc[a] = "done"
        /\ Len(reqs[a]) = Len(MODELOS_FALLBACK) * Len(_api_keys_disponiveis)
        /\ Len(reqs[a]) >= 4

\* C6: a request goes out with the pool's current credential slot and a
\* candidate that is not exhausted for it; a skipped candidate costs neither
\* a request nor a counted attempt.
C6_PedidoNoSlotAtual ==
    [][\A a \in Agents :
        /\ (pc[a] = "loop" /\ pc'[a] = "request") =>
                LET r == reqs'[a][Len(reqs'[a])]
                IN  /\ r.slot = _api_key_atual_idx'
                    /\ r.key = At(_api_keys_disponiveis', _api_key_atual_idx')
                    /\ r.modelo \notin _modelos_esgotados_por_key'[r.key]
        /\ (pc[a] = "loop" /\ pulos'[a] # pulos[a]) =>
                /\ reqs'[a] = reqs[a]
                /\ tentativas'[a] = tentativas[a]
    ]_vars

\* a request that went out after the call skipped an exhausted candidate
C6_Witness ==
    \E a \in Agents :
        /\ pc[a] = "request"
        /\ pulos[a] >= 1
        /\ tentativas[a] = 0

\* the scenario of two candidates and two credentials: modelA fails with
\* quota on both keys, modelB succeeds on keyX, the ExhaustionSet is empty
CenarioAB(a) ==
    /\ pc[a] = "done"
    /\ _api_keys_disponiveis = <<"keyX", "keyY">>
    /\ MODELOS_FALLBACK = ModelosPadrao
    /\ esg_inicio[a] = {}
    /\ \A i \in 1..Len(reqs[a]) :
        /\ reqs[a][i].modelo = ModelosPadrao[1] => reqs[a][i].res = "quota"
        /\ (reqs[a][i].modelo = ModelosPadrao[2] /\ reqs[a][i].key = "keyX") =>
                reqs[a][i].res = "ok"

\* C7 as stated: in the scenario, a handler whose first request goes to
\* modelA gets the success on the 3rd request, and the ExhaustionSet is then
\* {(keyX, modelA), (keyY, modelA)}.
C7_Original ==
    \A a \in Agents :
        (CenarioAB(a) /\ reqs[a][1].modelo = ModelosPadrao[1]) =>
            /\ resultado[a] = "ok"
            /\ Len(reqs[a]) = 3
            /\ Pares(_modelos_esgotados_por_key) =
                    { <<"keyX", ModelosPadrao[1]>>, <<"keyY", ModelosPadrao[1]>> }

\* C7: in the scenario, a handler whose first request goes to modelA gets
\* the success on the 2nd request, from modelB/keyX, and the ExhaustionSet
\* is then {(keyX, modelA)}.
C7_SucessoNoSegundo ==
    \A a \in Agents :
        (CenarioAB(a) /\ reqs[a][1].modelo = ModelosPadrao[1]) =>
            /\ resultado[a] = "ok"
            /\ Len(reqs[a]) = 2
            /\ reqs[a][2].key = "keyX"
            /\ reqs[a][2].modelo = ModelosPadrao[2]
            /\ Pares(_modelos_esgotados_por_key) = { <<"keyX", ModelosPadrao[1]>> }

C7_Witness ==
    \E a \in Agents :
        /\ CenarioAB(a)
        /\ reqs[a][1].modelo = ModelosPadrao[1]

\* position of a candidate in the priority list
Pos(mf, m) == CHOOSE j \in 1..Len(mf) : mf[j] = m

\* C8: the pairs are attempted slot-major: a slot is used only when every
\* candidate of the slots before it is exhausted, the candidates of one slot
\* are requested in priority order, and the first request on a new slot goes
\* to its first candidate that is not exhausted.
C8_SlotMajor ==
    [][\A a \in Agents :
        (pc[a] = "loop" /\ pc'[a] = "request") =>
            LET rs == reqs'[a]
                n == Len(rs)
                r == rs[n]
                mf == MODELOS_FALLBACK'
                esg == _modelos_esgotados_por_key'
            IN  /\ \A i \in 0..(r.slot - 1) : \A j \in 1..Len(mf) :
                        mf[j] \in esg[At(_api_keys_disponiveis', i)]
                /\ (n > 1 /\ rs[n - 1].slot = r.slot) =>
                        Pos(mf, r.modelo) > Pos(mf, rs[n - 1].modelo)
                /\ (n > 1 /\ rs[n - 1].slot # r.slot) =>
                        /\ r.slot > rs[n - 1].slot
                        /\ \A j \in 1..(Pos(mf, r.modelo) - 1) : mf[j] \in esg[r.key]
    ]_vars

\* C9: the index of the current credential slot never decreases, and once a
\* handler exists it is a valid index of the loaded slots.
C9_SlotMonotono ==
    [][/\ _api_key_atual_idx' >= _api_key_atual_idx
       /\ (\E a \in Agents : construido'[a]) =>
            _api_key_atual_idx' \in 0..(Len(_api_keys_disponiveis') - 1)
    ]_vars

\* the slot advanced, and a handler constructed with GOOGLE_API_KEY is idle
C9_Witness ==
    /\ _api_key_atual_idx = 1
    /\ Livre
    /\ \E a \in Agents : construido[a] /\ api_key[a] = KeyNames[1]

\* C10: no step removes a pair from the ExhaustionSet.
C10_EsgotadosSoCrescem ==
    [][\A k \in DOMAIN _modelos_esgotados_por_key :
        /\ k \in DOMAIN _modelos_esgotados_por_key'
        /\ _modelos_esgotados_por_key[k] \subseteq _modelos_esgotados_por_key'[k]
    ]_vars

\* pairs are exhausted, the memory is empty again, a handler was rebuilt on
\* the first credential after the slot advanced
C10_Witness ==
    /\ Cardinality(Pares(_modelos_esgotados_por_key)) >= 2
    /\ _memoria_compartilhada = 0
    /\ Livre
    /\ _api_key_atual_idx = 1
    /\ \E a \in Agents : construido[a] /\ api_key[a] = KeyNames[1]
                            /\ modelo_atual[a] \in _modelos_esgotados_por_key[api_key[a]]

\* C11: marking a pair that is already in the ExhaustionSet leaves the set as
\* it was: for a handler whose current candidate is already exhausted the
\* marking changes nothing, and the pass of invocar_llm that re-marks such a
\* stale candidate before it advances leaves the set of exhausted pairs equal.
C11_MarcarIdempotente ==
    /\ [](\A a \in Agents :
            (construido[a] /\ modelo_atual[a] \in _modelos_esgotados_por_key[api_key[a]]) =>
                MarcarEsgotado(Self(a), Classe) = Classe)
    /\ [][\A a \in Agents :
            (pc[a] = "loop" /\ pulos'[a] # pulos[a]) =>
                Pares(_modelos_esgotados_por_key') = Pares(_modelos_esgotados_por_key)
       ]_vars

\* a call re-marked the stale candidate of its handler and goes on
C11_Witness ==
    \E a \in Agents :
        /\ pc[a] = "loop"
        /\ pulos[a] = 1
        /\ reqs[a] = <<>>
        /\ esg_inicio[a] # {}
        /\ Pares(_modelos_esgotados_por_key) = esg_inicio[a]

\* C12: with two calls of invocar_llm interleaved, the credential index
\* leaves a slot only when every candidate of that slot is exhausted, so no
\* slot is passed over while one of its candidates never failed.
C12_NaoPulaSlot ==
    [][(_api_key_atual_idx' # _api_key_atual_idx) =>
            \A j \in 1..Len(MODELOS_FALLBACK) :
                MODELOS_FALLBACK[j] \in
                    _modelos_esgotados_por_key'[At(_api_keys_disponiveis, _api_key_atual_idx)]
    ]_vars

\* ------------------------------------------------------------------------
\* Properties of the tool-calling loop
\* ------------------------------------------------------------------------
\* the response in hand still asks for tools after the last allowed round
NoLimiteComPendentes ==
    /\ iteracoes = max_iteracoes
    /\ resposta.tool_calls # <<>>

\* C13: a run of processar_com_tools executes at most 5 rounds of tools and
\* invokes the gateway at most 6 times; when the response still carries tool
\* calls after the 5th round the run returns, without raising, the text of
\* that response (possibly empty) and the calls executed so far.
C13_RodadasLimitadas ==
    [][/\ iteracoes' <= max_iteracoes
       /\ chamadas' <= max_iteracoes + 1
       /\ (tpc = "loop" /\ NoLimiteComPendentes /\ tpc' # tpc) =>
            /\ tpc' = "fim"
            /\ saida' = [tipo |-> "retorno",
                         texto |-> _extrair_texto_resposta(resposta.content),
                         calls |-> tool_calls_executados]
            /\ Len(tool_calls_executados) >= max_iteracoes
    ]_vars

\* the bound was reached with calls pending and an empty text was returned
C13_Witness ==
    /\ tpc = "fim"
    /\ NoLimiteComPendentes
    /\ chamadas = max_iteracoes + 1
    /\ saida.tipo = "retorno"
    /\ saida.texto = ""
    /\ saida.calls = tool_calls_executados

\* the positions of the tool results of the transcript that carry an id
ResultadosCom(msgs, id) ==
    { q \in 1..Len(msgs) : msgs[q].tipo = "tool" /\ msgs[q].id = id }

\* C14: when processar_com_tools is left, by a return, at the bound of the
\* rounds or by an exception of the gateway, every tool call of an assistant
\* message of the transcript has exactly one tool result with its id, later
\* in the transcript.
C14_CallsComResultado ==
    (tpc = "fim") =>
        \A p \in 1..Len(mensagens) :
            mensagens[p].tipo = "ai" =>
                \A i \in 1..Len(mensagens[p].calls) :
                    LET qs == ResultadosCom(mensagens, mensagens[p].calls[i].id)
                    IN  /\ Cardinality(qs) = 1
                        /\ \A q \in qs : q > p

\* the gateway raised when it was called again after two rounds of tools,
\* one of them with a tool that is not registered
C14_Witness ==
    /\ tpc = "fim"
    /\ saida.tipo = "excecao_gateway"
    /\ iteracoes = 2
    /\ \E p \in 1..Len(mensagens) :
            /\ mensagens[p].tipo = "ai"
            /\ Len(mensagens[p].calls) = 2
            /\ mensagens[p].calls[1].name \notin tools_by_name

\* a step that is a round of tools over the response in hand
PassoRodada == tpc = "loop" /\ iteracoes' = iteracoes + 1

\* the messages and the records the round added
NovasMensagens == SubSeq(mensagens', Len(mensagens) + 1, Len(mensagens'))

NovasExecucoes ==
    SubSeq(tool_calls_executados', Len(tool_calls_executados) + 1,
           Len(tool_calls_executados'))

\* the round answered call i of the response with the result res, recorded
\* it, went on with the calls after it and called the gateway again
RodadaRespondeu(i, res) ==
    LET tc == resposta.tool_calls[i]
    IN  /\ tpc' = "chamando"
        /\ chamadas' = chamadas + 1
        /\ saida' = saida
        /\ \E q \in 1..Len(NovasMensagens) :
                NovasMensagens[q] = ToolMessage(res, tc.id)
        /\ Len(NovasExecucoes) = Len(resposta.tool_calls)
        /\ NovasExecucoes[i] = [name |-> tc.name, args |-> tc.args, result |-> res]
        /\ \A j \in (i + 1)..Len(resposta.tool_calls) :
                ResultadosCom(mensagens', resposta.tool_calls[j].id) # {}

\* C15: a tool call whose name is not registered does not raise: the round
\* appends a 'not found' tool result for its id, records it in the executed
\* calls, processes the other calls of the response and calls the gateway
\* again.
C15_ToolAusente ==
    [][PassoRodada =>
        \A i \in 1..Len(resposta.tool_calls) :
            resposta.tool_calls[i].name \notin tools_by_name =>
                RodadaRespondeu(i, "Ferramenta nao encontrada")
    ]_vars

\* a round met a tool that is not registered and then executed another
C15_Witness ==
    /\ tpc = "chamando"
    /\ \E k \in 1..(Len(tool_calls_executados) - 1) :
            /\ tool_calls_executados[k].result = "Ferramenta nao encontrada"
            /\ tool_calls_executados[k].name = "doesNotExist"
            /\ tool_calls_executados[k + 1].result = "resultado"

\* C16: an exception of a registered tool does not leave the loop: the round
\* turns it into an error tool result for that call id, executes the calls
\* after it and calls the gateway again.
C16_ToolLevanta ==
    [][PassoRodada =>
        \A i \in 1..Len(resposta.tool_calls) :
            LET tc == resposta.tool_calls[i]
            IN  (tc.name \in tools_by_name /\ InvocarTool(tc.name, tc.args).raised) =>
                    RodadaRespondeu(i, "Erro ao executar")
    ]_vars

\* a registered tool raised, and the call after it was executed
C16_Witness ==
    /\ tpc = "chamando"
    /\ \E k \in 1..(Len(tool_calls_executados) - 1) :
            /\ tool_calls_executados[k].result = "Erro ao executar"
            /\ tool_calls_executados[k].name \in tools_by_name
            /\ tool_calls_executados[k + 1].result = "resultado"

\* the tool calls of the assistant messages of a transcript, in its order
RECURSIVE CallsDe(_)
CallsDe(msgs) ==
    IF msgs = <<>> THEN <<>>
    ELSE (IF Head(msgs).tipo = "ai" THEN Head(msgs).calls ELSE <<>>) \o CallsDe(Tail(msgs))

\* the tool results of a transcript, in its order
ResultadosDe(msgs) == SelectSeq(msgs, LAMBDA m : m.tipo = "tool")

\* C17: the tool calls are executed in the order the provider returned them,
\* round by round: the executed calls and the tool results of the transcript
\* list exactly the calls of the responses that went through a round, in that
\* order, and nothing for the calls left pending at the bound of the rounds.
C17_OrdemDoProvider ==
    LET calls == CallsDe(mensagens)
        res == ResultadosDe(mensagens)
    IN  (tpc \in {"chamando", "fim"}) =>
            /\ Len(res) = Len(calls)
            /\ Len(tool_calls_executados) = Len(calls)
            /\ \A k \in 1..Len(calls) :
                /\ res[k].id = calls[k].id
                /\ tool_calls_executados[k].name = calls[k].name
                /\ tool_calls_executados[k].args = calls[k].args
                /\ res[k].content = tool_calls_executados[k].result
            /\ (tpc = "fim" /\ saida.tipo = "retorno") =>
                /\ saida.calls = tool_calls_executados
                /\ \A i \in 1..Len(resposta.tool_calls) :
                        ResultadosCom(mensagens, resposta.tool_calls[i].id) = {}

\* a run that returned at the bound, calls pending, after rounds of two calls
C17_Witness ==
    /\ tpc = "fim"
    /\ saida.tipo = "retorno"
    /\ NoLimiteComPendentes
    /\ Len(tool_calls_executados) > max_iteracoes
    /\ tool_calls_executados[1].result # tool_calls_executados[2].result

\* [system directive] + the last min(20, length) messages of the memory, in
\* their order, + [new user message]
TranscriptComJanela ==
    LET n == _memoria_compartilhada
        k == IF n < JanelaHistorico THEN n ELSE JanelaHistorico
    IN  <<SystemMessage>> \o [i \in 1..k |-> MensagemDaMemoria(n - k + i)]
            \o <<HumanMessage>>

\* C18 as stated: the transcript of the first gateway call is the system
\* directive, the last min(20, length) messages of the memory and the user
\* message, in every run of processar_com_tools.
C18_Original ==
    [][(tpc = "idle" /\ tpc' = "chamando") => mensagens' = TranscriptComJanela]_vars

\* C18: in a run with usar_memoria true (the default) the transcript of the
\* first gateway call is the system directive, the last min(20, length)
\* messages of the memory in their order and the user message; with
\* usar_memoria false it is the system directive and the user message alone.
\* No step of a run changes the memory.
C18_PrimeiroTranscript ==
    [][/\ (tpc = "idle" /\ tpc' = "chamando") =>
            /\ chamadas' = 1
            /\ mensagens' = IF usar_memoria' THEN TranscriptComJanela
                            ELSE <<SystemMessage, HumanMessage>>
       /\ (tpc # "idle" \/ tpc' # "idle") =>
            _memoria_compartilhada' = _memoria_compartilhada
    ]_vars

\* the first call goes out with a memory longer than the window
C18_Witness ==
    /\ tpc = "chamando"
    /\ chamadas = 1
    /\ usar_memoria
    /\ _memoria_compartilhada > JanelaHistorico
    /\ Len(mensagens) = JanelaHistorico + 2
    /\ mensagens[2] = MensagemDaMemoria(_memoria_compartilhada - JanelaHistorico + 1)

\* ------------------------------------------------------------------------
\* Properties of the Orchestrator
\* ------------------------------------------------------------------------
\* the first result hands the turn off to a registered handler, no reply
HandoffSemResposta(res) ==
    /\ res.resposta = ""
    /\ res.proximo_agente \in Registrados

\* C19: when the current handler returns an empty reply with a next-handler
\* directive naming X, X becomes current and is invoked with the same
\* message; when X then returns a non-empty reply, that reply is what
\* processar_mensagem returns, never the empty string.
C19_HandoffInvisivel ==
    [][/\ (opc = "processar1" /\ opc' # "processar1" /\ retorno'.erro = Nenhum
            /\ HandoffSemResposta(resultado_handler')) =>
                /\ opc' = "processar2"
                /\ agente_atual' = resultado_handler'.proximo_agente
                /\ invocados' = Append(invocados, resultado_handler'.proximo_agente)
       /\ (opc = "processar2" /\ opc' # "processar2" /\ retorno'.erro = Nenhum
            /\ HandoffSemResposta(resultado_handler)
            /\ resultado_handler'.resposta \notin {Ausente, ""}) =>
                /\ opc' = "retornado"
                /\ retorno'.resposta = resultado_handler'.resposta
                /\ retorno'.resposta # ""
                /\ invocados[Len(invocados)] = resultado_handler.proximo_agente
    ]_vars

\* triage handed the turn to the credit handler, whose reply was returned
C19_Witness ==
    /\ opc = "retornado"
    /\ invocados = <<"triagem", "credito">>
    /\ agente_atual = "credito"
    /\ retorno.erro = Nenhum
    /\ retorno.resposta = "texto"
    /\ retorno.agente_atual = "Crédito"

\* C20: when processar_mensagem returns, the turn log is one entry longer
\* than it was when the call began, with or without a handoff and also when
\* a handler raised.
C20_HistoricoMaisUm ==
    [][(opc # "retornado" /\ opc' = "retornado") =>
            contexto'.historico = historico_antes + 1
    ]_vars

\* ------------------------------------------------------------------------
\* Properties of a conversation
\* ------------------------------------------------------------------------
\* C21: a handoff never truncates the conversation memory: when a turn has
\* made another handler current, nothing that was in the shared memory has
\* been removed from it, whichever handler handed off to whichever, the
\* handoff from triage to the interview with the customer included.
C21_HandoffNaoTrunca ==
    (opc = "retornado" /\ agente_atual # invocados[1]) =>
        ~InList(escritas, "clear")

\* where the messages written after the last clearing of the memory begin
AposUltimoClear(esc) ==
    IF InList(esc, "clear")
    THEN 1 + CHOOSE i \in 1..Len(esc) :
                esc[i] = "clear" /\ \A j \in (i + 1)..Len(esc) : esc[j] # "clear"
    ELSE 1

\* how many messages of a kind the turn has added to the shared memory
Ganhou(esc, tipo) ==
    Cardinality({ i \in AposUltimoClear(esc)..Len(esc) : esc[i] = tipo })

\* C22: in a turn where the first handler returns an empty reply with a
\* next-handler directive and the new handler is invoked again, the shared
\* memory gains the user's message exactly once and the final reply exactly
\* once.
C22_UmaVezCadaUm ==
    (opc = "retornado" /\ retorno.erro = Nenhum /\ Len(invocados) = 2) =>
        /\ Ganhou(escritas, "human") = 1
        /\ Ganhou(escritas, "ai") = 1

\* C23: when a handler's processar raises during a turn, in the first
\* invocation or in the invocation that follows a handoff, the current
\* handler after processar_mensagem returns is the handler that was current
\* before the turn began.
C23_MesmoHandlerAposErro ==
    (opc = "retornado" /\ retorno.erro # Nenhum) => agente_atual = invocados[1]

\* the names _obter_nome_agente_atual gives to the four handlers
NomesDeAgente == { _obter_nome_agente_atual(ag) : ag \in Registrados }

\* C24: processar_mensagem always returns a record and lets no exception
\* out, whatever the provider and the handlers do; when a handler raised,
\* the record says that the conversation has not ended.
C24_SempreDevolveRegistro ==
    opc = "retornado" =>
        /\ retorno.resposta # Nenhum
        /\ retorno.agente_atual \in NomesDeAgente
        /\ retorno.encerrar \in BOOLEAN
        /\ retorno.erro \in ErrosDeHandler \cup {Nenhum}
        /\ retorno.erro # Nenhum => retorno.encerrar = FALSE

C24_Witness ==
    /\ opc = "retornado"
    /\ invocados = <<"triagem", "credito">>
    /\ retorno.erro = "Todos os modelos e API keys estão esgotados."
    /\ retorno.encerrar = FALSE
    /\ retorno.agente_atual = "Crédito"

\* C25: on a failure the reply of processar_mensagem is one fixed apology,
\* the same whatever the error was, so that it carries none of the error's
\* detail, and the record says that the conversation has not ended.
C25_DesculpaFixa ==
    (opc = "retornado" /\ retorno.erro # Nenhum) =>
        /\ \A erro \in ErrosDeHandler : retorno.resposta = MensagemDeErro(erro)
        /\ retorno.encerrar = FALSE

\* C26: a turn calls processar at most twice; the second call is made only
\* when the first result carried a next-handler directive with an empty or
\* blank reply, and it is made on the handler that is then current; there
\* is never a third call.
C26_NoMaximoDuas ==
    /\ Len(invocados) <= 2
    /\ Len(invocados) = 2 => opc \in {"processar2", "retornado"}
    /\ opc = "processar2" =>
        /\ Len(invocados) = 2
        /\ invocados[2] = agente_atual
        /\ resultado_handler.proximo_agente # Nenhum
        /\ resultado_handler.resposta \in {Ausente, "", "  "}

C26_Witness ==
    /\ opc = "processar2"
    /\ invocados = <<"triagem", "cambio">>
    /\ resultado_handler.resposta = "  "
    /\ resultado_handler.proximo_agente = "cambio"

\* the handler named by the last directive of the turn that names a
\* registered handler, and the current handler when there is none
UltimaDiretiva ==
    IF resultado_handler.proximo_agente \in Registrados
    THEN resultado_handler.proximo_agente
    ELSE IF Len(invocados) = 2 THEN invocados[2] ELSE agente_atual

\* C27: when a result returned during a turn, by the first invocation or
\* by the re-invocation, carries a directive naming a registered handler,
\* the current handler after the turn is the handler named by the last such
\* directive, and the returned handler name is that handler's.
C27_UltimaDiretivaVale ==
    opc = "retornado" =>
        /\ agente_atual = UltimaDiretiva
        /\ retorno.agente_atual = _obter_nome_agente_atual(UltimaDiretiva)

\* C28: the returned record says the conversation has ended exactly when
\* the result that gave the final reply carried the end directive; after an
\* exception, or with a final result without the directive, it says it has
\* not.
C28_EncerrarSoDoFinal ==
    opc = "retornado" =>
        (retorno.encerrar <=> (retorno.erro = Nenhum /\ resultado_handler.encerrar))

C28_Witness ==
    /\ opc = "retornado"
    /\ invocados = <<"credito", "cambio">>
    /\ resultado_handler.encerrar
    /\ retorno.encerrar
    /\ retorno.erro = Nenhum

\* C29: once a record with encerrar = True has been returned, no later call
\* of processar_mensagem on the same Orchestrator invokes a handler, writes
\* anything or returns encerrar = False, until resetar is called.
C29_EncerradoTerminal ==
    (encerrou /\ opc = "retornado") =>
        /\ invocados = <<>>
        /\ escritas = <<>>
        /\ retorno.encerrar

\* the state of a conversation that has not begun
ConversaNova ==
    /\ agente_atual = "triagem"
    /\ etapa = "saudacao"
    /\ contexto = ContextoVazio
    /\ _memoria_compartilhada = 0

\* C30: after an Orchestrator is constructed and after every resetar, the
\* triage handler is current and in its first stage, the context is
\* unauthenticated with no customer and an empty turn log, and the shared
\* memory is empty.
C30_ConversaNova ==
    [][(OrchestratorResetar \/ NovoOrchestrator) => ConversaNova']_vars

\* C39: for every handler instance, after any sequence of invocations,
\* candidate switches, slot switches and synchronisations with the shared
\* pool, modelo_atual equals MODELOS_FALLBACK[modelo_atual_idx].
C39_ModeloNoIndice ==
    \A a \in Agents :
        construido[a] => modelo_atual[a] = At(MODELOS_FALLBACK, modelo_atual_idx[a])

\* C38: the current handler is at every instant one of the four registered
\* handlers; a directive naming an unregistered handler leaves the current
\* handler unchanged, and no operation sets it to none.
C38_SempreUmDosQuatro ==
    /\ agente_atual \in Registrados
    /\ ( /\ opc = "processar2" \/ (opc = "retornado" /\ Len(invocados) = 1)
         /\ resultado_handler.proximo_agente \notin Registrados \cup {Nenhum} )
       => agente_atual = invocados[1]

C38_Witness ==
    /\ opc = "processar2"
    /\ resultado_handler.proximo_agente = "inexistente"
    /\ invocados = <<"credito", "credito">>
    /\ agente_atual = "credito"

\* C31: after resetar no handler retains the previous conversation's
\* customer: in every turn, the customer a handler invoked in the turn holds,
\* and the customer whose score the interview handler writes, is the customer
\* authenticated in the current conversation, whatever the handoff path.
C31_ClienteDaConversa ==
    opc = "retornado" =>
        /\ \A i \in DOMAIN invocados :
              (invocados[i] \in DOMAIN cliente_de /\ cliente_de[invocados[i]] # Nenhum)
                  => cliente_de[invocados[i]] = contexto.cliente
        /\ \A i \in DOMAIN turno.scores : turno.scores[i].cliente = contexto.cliente

\* C32: every result a handler's processar returns has a non-empty reply
\* unless it carries a next-handler directive, whatever the provider
\* answered, an empty text included.
C32_RespostaOuDiretiva ==
    (opc = "retornado" /\ retorno.erro = Nenhum) =>
        \/ resultado_handler.resposta \notin {"", Nenhum}
        \/ resultado_handler.proximo_agente # Nenhum

\* C33: a provider error that is not a quota error and occurs during a turn
\* is surfaced as a failure of the turn: the record processar_mensagem
\* returns has its error field set, whichever handler and stage was
\* processing.
C33_ErroDoProviderAparece ==
    (opc = "retornado" /\ ErroNaoQuota \in turno.falhas) => retorno.erro # Nenhum

\* the handlers other than triage
Especialistas == Registrados \ {"triagem"}

\* C34 as stated: when the current handler is not triage the context is
\* authenticated and holds a customer, the context is authenticated exactly
\* when it holds a customer, and a specialist handler becomes current only
\* through a result of the triage handler in its authenticated stage.
C34_Original ==
    [][ /\ (agente_atual' # "triagem") =>
               (contexto'.autenticado /\ contexto'.cliente # Nenhum)
        /\ contexto'.autenticado <=> (contexto'.cliente # Nenhum)
        /\ (agente_atual' \in Especialistas /\ agente_atual' # agente_atual) =>
               /\ invocados'[1] = "triagem"
               /\ etapa' = "autenticado" ]_vars

\* C34: authentication gates routing. When the current handler is not triage
\* the context is authenticated and holds a customer; the context is
\* authenticated exactly when it holds a customer; the current handler
\* leaves triage only through a directive that the triage handler issued in
\* its authenticated stage, and every other change of the current handler
\* to a specialist follows a directive of a specialist.
C34_AutenticacaoAntesDeRotear ==
    [][ /\ (agente_atual' # "triagem") =>
               (contexto'.autenticado /\ contexto'.cliente # Nenhum)
        /\ contexto'.autenticado <=> (contexto'.cliente # Nenhum)
        /\ (agente_atual' \in Especialistas /\ agente_atual' # agente_atual) =>
               \/ /\ invocados'[1] = "triagem"
                  /\ etapa = "autenticado"
                  /\ etapa' = "autenticado"
                  /\ estado'.cliente = contexto'.cliente
               \/ invocados'[1] \in Especialistas ]_vars

C34_Witness ==
    /\ opc = "retornado"
    /\ invocados = <<"triagem", "credito">>
    /\ agente_atual = "credito"
    /\ etapa = "autenticado"
    /\ contexto.autenticado
    /\ contexto.cliente = "bia"

\* C35: the triage handler allows at most 3 failed authentication attempts:
\* tentativas_falha never exceeds 3, the number of remaining attempts it
\* announces is never below 1, and the third failed attempt moves the stage
\* to 'falha' and returns encerrar = True, also when the provider call fails
\* and the except branch performs the authentication.
C35_NoMaximoTresFalhas ==
    /\ estado.tentativas_falha <= 3
    /\ \A n \in turno.restantes : n >= 1
    /\ (opc = "retornado" /\ invocados = <<"triagem">> /\ estado.tentativas_falha = 3
          /\ retorno.erro = Nenhum /\ ~resultado_handler.encerrar)
       => etapa \in {"falha", "saudacao"}

\* C36: the triage stage reaches 'autenticado' only from
\* 'coletando_nascimento' and only with the customer that authentication
\* returned for the CPF collected in 'coletando_cpf'; once 'autenticado' the
\* stage stays so until a reset; the triage handler emits a next-handler
\* directive only in that stage.
C36_EtapasDaTriagem ==
    [][ /\ (etapa' = "autenticado" /\ etapa # "autenticado") =>
              /\ etapa = "coletando_nascimento"
              /\ estado.cpf \in Cpfs
              /\ estado'.cliente # Nenhum
              /\ CpfDe(estado'.cliente) = estado.cpf
        /\ (etapa = "autenticado" /\ etapa' # "autenticado") =>
              (etapa' = "saudacao" /\ estado' = EstadoInicial /\ invocados' = invocados)
        /\ (opc = "idle" /\ opc' = "retornado" /\ agente_atual = "triagem"
              /\ agente_atual' # "triagem") =>
              (etapa = "autenticado" /\ etapa' = "autenticado") ]_vars

C36_Witness ==
    /\ opc = "retornado"
    /\ invocados = <<"triagem">>
    /\ etapa = "autenticado"
    /\ estado.cliente = "bia"
    /\ estado.cpf = CpfDe("bia")
    /\ turno.falhas # {}
    /\ contexto.cliente = "bia"

\* the keys of dados_coletados, entrevista_agent.py lines 19-25
CamposDaEntrevista ==
    {"renda_mensal", "tipo_emprego", "despesas_fixas", "num_dependentes", "tem_dividas"}

====
